---- MODULE Spec2Model ----
(***************************************************************************)
(* A model of ember-plus-rs: the per-connection communication channel      *)
(* (src/src/com.rs), the Glow packet reassembly it drives                  *)
(* (src/src/glow.rs, src/src/ember.rs), the S101 frame classification      *)
(* (src/src/s101.rs) and the consumer traversal engine                     *)
(* (src/src/consumer.rs).                                                  *)
(*                                                                         *)
(* One group of variables per subsystem, and these specifications:        *)
(*   SpecCodec   the S101 frame codec, the Glow packet codec and the       *)
(*               RelativeOid operations, applied to inputs of bounded size *)
(*   SpecReceive the receive loop decoding a stream of bytes               *)
(*   SpecReceiveAny  the receive loop on short and over-long frames        *)
(*   SpecNegotiate   the negotiation prelude on the bytes of the socket    *)
(*   SpecDepack  the depacketize task fed with arbitrary packets           *)
(*   SpecChan    negotiation prelude and the seven tasks of one channel    *)
(*   SpecInbound the open channel fed with fragmented messages             *)
(*   Spec        the consumer engine against a provider                    *)
(*   SpecSubs    the consumer engine with up to three subscribers          *)
(*   SpecProv    the accept loop of the provider (src/src/provider.rs)     *)
(***************************************************************************)
EXTENDS Integers, Sequences, FiniteSets, TLC

VARIABLES
    \* ---- communication channel (com.rs) ----
    conf,                 \* arguments of ember_channel: keepalive, try_use_non_escaping, negotiate
    chan,                 \* "negotiating", "open" (tasks spawned) or "failed" (ember_channel returned Err)
    use_non_escaping,     \* framing committed to by ember_channel
    attempt,              \* negotiate_non_escaping: attempts that ended without a frame
    neg_written,          \* negotiate_non_escaping: keepalive requests written to the socket
    task,                 \* state of each spawned task: "idle", "run" or "done"
    packetize_rx,         \* queue Root sender (user) -> packetize
    frame_rx,             \* queue packetize -> frame
    send_rx,              \* queue frame, keepalive -> send
    receive_rx,           \* queue receive (and negotiation) -> unframe
    unframe_rx,           \* queue unframe -> depacketize
    depacketize_rx,       \* queue depacketize -> Root receiver (user)
    keepalive_request_rx, \* queue receive -> keepalive task
    user,                 \* which ends of the channel the user still holds
    sock,                 \* condition of the two socket halves
    written,              \* the frame written to the socket last, if any
    buf,                  \* depacketize: packets of the partial message
    dp_last,              \* depacketize: the packet handled last, the buffer before it, what it emitted
    ka,                   \* keepalive bookkeeping: requests received, signals sent by receive,
                          \* responses enqueued, and whether one was enqueued on a closed queue
    n_in,                 \* number of inputs the environment has supplied so far
    \* ---- consumer engine (consumer.rs) ----
    in_flight,            \* EmberConsumer::in_flight
    explored,             \* EmberConsumer::explored
    permanent_consumers,  \* EmberConsumer::permanent_consumers, as subscriber numbers
    query_offline_nodes,  \* EmberConsumer::query_offline_nodes
    shutdown_token,       \* TRUE once EmberConsumer::shutdown_token is cancelled
    engine,               \* the task spawned by start: "idle", "running", "stopped", "panicked"
    api_rx,               \* queue EmberConsumerApi -> run
    ember_sender,         \* every Root the engine handed to ember_sender, in order
    n_answered,           \* how many of them the provider has answered
    ember_receiver,       \* queue of Roots from the provider, not yet processed
    events,               \* per subscriber: the TreeEvents sent to its queue, in order
    sub_dropped,          \* subscribers that dropped the receiving end of their queue
    tree,                 \* provider: the elements it has advertised
    listed,               \* provider: the OIDs whose directory it has answered
    n_calls,              \* API calls made and disturbances that have happened
    \* ---- codecs (s101.rs, glow.rs) ----
    original,             \* the value handed to an encoder: an S101 frame or a Root
    encoded,              \* what the encoder made of it: bytes or packets
    reconstructed,        \* what the decoder made of that
    wire,                 \* the bytes the peer wrote to the socket, read by the receive loop
    read_pos,             \* index of the first byte of them the loop has not read
    outcomes,             \* what each S101Frame::decode of the loop returned, in order
    reader,               \* the receive loop on bytes: "idle", "running", "stopped", "panicked"
    \* ---- provider accept loop (provider.rs) ----
    cancellation_token,   \* TRUE once the provider's CancellationToken is cancelled
    accept_loop,          \* the accept_clients task: "idle", "running", "stopped" (by the
                          \* token) or "failed" (by an accept error)
    backlog,              \* connections the listener holds that accept has not returned yet
    handlers,             \* per accepted client: its handle_client task, "running", "ok" or "err"
    n_clients             \* connection attempts made so far

chanVars == << conf, chan, use_non_escaping, attempt, neg_written, task, packetize_rx,
               frame_rx, send_rx, receive_rx, unframe_rx, depacketize_rx,
               keepalive_request_rx, user, sock, written, buf, dp_last, ka, n_in >>

consVars == << in_flight, explored, permanent_consumers, query_offline_nodes,
               shutdown_token, engine, api_rx, ember_sender, n_answered, ember_receiver,
               events, sub_dropped, tree, listed, n_calls >>

readVars == << wire, read_pos, outcomes, reader >>

codecVars == << original, encoded, reconstructed, readVars >>

provVars == << cancellation_token, accept_loop, backlog, handlers, n_clients >>

vars == << chanVars, consVars, codecVars, provVars >>

(***************************************************************************)
(* Bounds of the model.                                                    *)
(***************************************************************************)
MaxByte == 2       \* payload bytes range over 0..MaxByte
MaxPackets == 3    \* packets handed to depacketize in SpecDepack
channel_buf_size == 1   \* capacity of every queue (1024 * 1024 in com.rs:66)
MaxFaults == 1     \* disturbances: a failed socket half (SpecChan); a cancellation, a
                   \* dropped subscriber, an unsolicited Root (Spec)

Bytes == 0..MaxByte

\* Option<T>: None is the empty sequence, Some(x) the sequence holding x
None == << >>

Some(x) == << x >>

\* no codec has been applied
NoCodec ==
    /\ original = None /\ encoded = None /\ reconstructed = None
    /\ wire = << >> /\ read_pos = 1 /\ outcomes = << >> /\ reader = "idle"

\* no provider has been started
NoProvider ==
    /\ cancellation_token = FALSE
    /\ accept_loop = "idle"
    /\ backlog = 0
    /\ handlers = << >>
    /\ n_clients = 0

(***************************************************************************)
(* s101.rs: position flags of a Glow packet.                               *)
(***************************************************************************)
Flags == {"SinglePacket", "MultiPacketFirst", "MultiPacket", "MultiPacketLast", "EmptyPacket"}

\* ember.rs: an EmberPacket, reduced to its flag and its payload.  from_bytes
\* rejects a packet without payload, so a received payload has at least one byte.
EmberPacket(flag, payload) == [flag |-> flag, payload |-> payload]

Payloads == { << b >> : b \in Bytes }

Packets == { EmberPacket(f, p) : f \in Flags, p \in Payloads }

(***************************************************************************)
(* The BER codec (crate rasn) is an external collaborator.  It is modelled *)
(* as a length-prefixed encoding: the first byte gives the number of       *)
(* content bytes that follow, and decoding fails when it does not.  A Root *)
(* is identified with its content bytes.                                   *)
(***************************************************************************)
BerEncode(root) == << Len(root) >> \o root

\* The result is a sequence: << root >> on success, << >> on a decode error.
BerDecode(bytes) ==
    IF Len(bytes) >= 1 /\ bytes[1] = Len(bytes) - 1
    THEN << SubSeq(bytes, 2, Len(bytes)) >>
    ELSE << >>

RECURSIVE Concat(_)
Concat(packets) ==
    IF packets = << >> THEN << >>
    ELSE Head(packets).payload \o Concat(Tail(packets))

\* glow.rs Root::from_packets: concatenate the payloads in order, then decode.
from_packets(packets) == BerDecode(Concat(packets))

(***************************************************************************)
(* glow.rs Root::to_packets with packet_count and Root::flag.              *)
(***************************************************************************)
\* ember.rs:26 `const MAX_PAYLOAD_LEN: usize = usize::MAX`, which is
\* 2^64 - 1.  The model's integers end at 2^31 - 1, and that value stands
\* for it: both exceed the length of every payload of the model, and
\* nothing else about the value enters packet_count and the chunk bounds.
MAX_PAYLOAD_LEN == 2147483647

\* packet_count: `(len as f32 / MAX_PAYLOAD_LEN as f32).ceil() as usize`.
\* Lengths up to 2^24 convert to f32 exactly, so for the payloads of the
\* model the f32 quotient rounds up to the integer ceiling.
packet_count(payload) ==
    IF payload = << >>
    THEN 0
    ELSE (Len(payload) \div MAX_PAYLOAD_LEN)
            + (IF Len(payload) % MAX_PAYLOAD_LEN = 0 THEN 0 ELSE 1)

\* Root::flag(packet_count, packet_index)
flag(count, packet_index) ==
    IF count < 1 THEN "EmptyPacket"
    ELSE IF count = 1 THEN "SinglePacket"
    ELSE IF packet_index = 0 THEN "MultiPacketFirst"
    ELSE IF packet_index = count - 1 THEN "MultiPacketLast"
    ELSE "MultiPacket"

Min(a, b) == IF a <= b THEN a ELSE b

\* mutant: every chunk loses its last byte
chunk_Short(payload, i) ==
    SubSeq(payload, i * MAX_PAYLOAD_LEN + 1,
           Min((i + 1) * MAX_PAYLOAD_LEN, Len(payload)) - 1)

\* payload[i * MAX_PAYLOAD_LEN..((i + 1) * MAX_PAYLOAD_LEN).min(payload.len())];
\* the loop only reaches i = 0 unless the payload is longer than
\* MAX_PAYLOAD_LEN, so the products stay within the integers
chunk(payload, i) ==
    SubSeq(payload, i * MAX_PAYLOAD_LEN + 1, Min((i + 1) * MAX_PAYLOAD_LEN, Len(payload)))

\* the loop of to_packets over the encoded payload
packets_of(payload) ==
    [i \in 1..packet_count(payload) |->
        EmberPacket(flag(packet_count(payload), i - 1), chunk(payload, i - 1))]

\* Root::to_packets: ber::encode(self), then one packet per chunk
to_packets(r) == packets_of(BerEncode(r))

(***************************************************************************)
(* com.rs depacketize: one iteration of the loop on `packet` with buffer   *)
(* `b`; `rx_open` tells whether the Root receiver still exists, which      *)
(* decides whether tx.send(root) succeeds.  The result gives the new       *)
(* buffer, the Roots handed to tx (none or one) and whether the loop goes  *)
(* on.                                                                     *)
(***************************************************************************)
DepacketizeResult(b, roots, rx_open) ==
    [buf |-> b,
     sent |-> IF rx_open THEN roots ELSE << >>,
     running |-> (roots = << >>) \/ rx_open]

\* mutant: an 'empty' packet that resets the reassembly
depacketize_EmptyPacket_Clears(b, packet, rx_open) == DepacketizeResult(<< >>, << >>, rx_open)

depacketize_EmptyPacket(b, packet, rx_open) == DepacketizeResult(b, << >>, rx_open)

\* mutant: a 'single' packet that does not decode ends the loop
depacketize_Single_StopsOnError(b, packet, rx_open) ==
    IF from_packets(<< packet >>) = << >>
    THEN [buf |-> << >>, sent |-> << >>, running |-> FALSE]
    ELSE DepacketizeResult(<< >>, from_packets(<< packet >>), rx_open)

depacketize_Single(b, packet, rx_open) ==
    \* buf.clear() when non-empty, then decode the packet alone; a decode
    \* error is logged and the loop continues
    DepacketizeResult(<< >>, from_packets(<< packet >>), rx_open)

\* mutant: a 'first' packet that forgets to clear the partial message
depacketize_First_Appends(b, packet, rx_open) ==
    DepacketizeResult(Append(b, packet), << >>, rx_open)

depacketize_First(b, packet, rx_open) ==
    \* buf.clear() when non-empty, then buf.push(packet)
    DepacketizeResult(<< packet >>, << >>, rx_open)

\* mutant: a 'middle' packet is buffered even when no message was begun
depacketize_Middle_Unchecked(b, packet, rx_open) ==
    DepacketizeResult(Append(b, packet), << >>, rx_open)

depacketize_Middle(b, packet, rx_open) ==
    IF b = << >>
    THEN DepacketizeResult(b, << >>, rx_open)             \* warn, continue
    ELSE DepacketizeResult(Append(b, packet), << >>, rx_open)

\* mutant: a 'last' packet decoded without the buffered packets
depacketize_Last_DropsBuffered(b, packet, rx_open) ==
    IF b = << >>
    THEN DepacketizeResult(b, << >>, rx_open)
    ELSE DepacketizeResult(<< >>, from_packets(<< packet >>), rx_open)

depacketize_Last(b, packet, rx_open) ==
    IF b = << >>
    THEN DepacketizeResult(b, << >>, rx_open)             \* warn, continue
    ELSE \* buf.push(packet); packets = buf.clone(); buf.clear(); decode
         DepacketizeResult(<< >>, from_packets(Append(b, packet)), rx_open)

depacketize_step(b, packet, rx_open) ==
    CASE packet.flag = "SinglePacket"     -> depacketize_Single(b, packet, rx_open)
      [] packet.flag = "MultiPacketFirst" -> depacketize_First(b, packet, rx_open)
      [] packet.flag = "MultiPacket"      -> depacketize_Middle(b, packet, rx_open)
      [] packet.flag = "MultiPacketLast"  -> depacketize_Last(b, packet, rx_open)
      [] packet.flag = "EmptyPacket"      -> depacketize_EmptyPacket(b, packet, rx_open)

(***************************************************************************)
(* The tasks of a channel and the queue ends each of them owns.            *)
(***************************************************************************)
Tasks == {"packetize", "frame", "send", "receive", "unframe", "depacketize", "keepalive"}

\* ka before the first frame
NoKeepalive == [requests |-> 0, signals |-> 0, responses |-> 0, answered |-> 0,
                spurious |-> FALSE]

\* dp_last before the first packet
NoStep == [packet |-> EmberPacket("EmptyPacket", << >>), before |-> << >>,
           sent |-> << >>, rx_open |-> TRUE, running |-> TRUE, seen |-> FALSE]

\* depacketize: `while let Some(packet) = rx.recv().await { ... }`
Depacketize ==
    /\ task["depacketize"] = "run"
    /\ unframe_rx # << >>
    /\ LET packet == Head(unframe_rx)
           r == depacketize_step(buf, packet, user.rx)
       IN /\ r.sent = << >> \/ Len(depacketize_rx) < channel_buf_size
          /\ buf' = r.buf
          /\ depacketize_rx' = depacketize_rx \o r.sent
          /\ task' = [task EXCEPT !["depacketize"] = IF r.running THEN "run" ELSE "done"]
          /\ dp_last' = [packet |-> packet, before |-> buf, sent |-> r.sent,
                          rx_open |-> user.rx, running |-> r.running, seen |-> TRUE]
    /\ unframe_rx' = Tail(unframe_rx)
    /\ UNCHANGED << provVars, codecVars, consVars, conf, chan, use_non_escaping, attempt, neg_written, packetize_rx,
                    frame_rx, send_rx, receive_rx, keepalive_request_rx, user, sock,
                    written, ka, n_in >>

\* depacketize: rx.recv() yields None once the unframe task has dropped its
\* sender and the queue is drained; the loop ends and the buffer is dropped.
DepacketizeEnds ==
    /\ task["depacketize"] = "run"
    /\ unframe_rx = << >>
    /\ task["unframe"] = "done"
    /\ task' = [task EXCEPT !["depacketize"] = "done"]
    /\ UNCHANGED << provVars, codecVars, consVars, conf, chan, use_non_escaping, attempt, neg_written, packetize_rx,
                    frame_rx, send_rx, receive_rx, unframe_rx, depacketize_rx,
                    keepalive_request_rx, user, sock, written, buf, dp_last, ka, n_in >>

\* The user takes the next Root from the receiver returned by ember_channel.
UserReceives ==
    /\ user.rx
    /\ depacketize_rx # << >>
    /\ depacketize_rx' = Tail(depacketize_rx)
    /\ UNCHANGED << provVars, codecVars, consVars, conf, chan, use_non_escaping, attempt, neg_written, task, packetize_rx,
                    frame_rx, send_rx, receive_rx, unframe_rx, keepalive_request_rx, user,
                    sock, written, buf, dp_last, ka, n_in >>

\* The user drops the Root receiver; what the queue still holds is dropped with it.
UserDropsReceiver ==
    /\ user.rx
    /\ user' = [user EXCEPT !.rx = FALSE]
    /\ depacketize_rx' = << >>
    /\ UNCHANGED << provVars, codecVars, consVars, conf, chan, use_non_escaping, attempt, neg_written, task, packetize_rx,
                    frame_rx, send_rx, receive_rx, unframe_rx, keepalive_request_rx,
                    sock, written, buf, dp_last, ka, n_in >>

(***************************************************************************)
(* SpecDepack: the depacketize task of an open channel, fed one packet at  *)
(* a time with any packet; the unframe task may end at any time.           *)
(***************************************************************************)
InitOpen(c, nonesc) ==
    /\ conf = c
    /\ chan = "open"
    /\ use_non_escaping = nonesc
    /\ attempt = 0
    /\ neg_written = 0
    /\ task = [t \in Tasks |-> "run"]
    /\ packetize_rx = << >>
    /\ frame_rx = << >>
    /\ send_rx = << >>
    /\ receive_rx = << >>
    /\ unframe_rx = << >>
    /\ depacketize_rx = << >>
    /\ keepalive_request_rx = << >>
    /\ user = [tx |-> TRUE, rx |-> TRUE]
    /\ sock = [read |-> "ok", write |-> "ok"]
    /\ written = None
    /\ buf = << >>
    /\ dp_last = NoStep
    /\ ka = NoKeepalive
    /\ n_in = 0

\* the consumer engine before start_tcp_consumer: nothing exists yet
NoEngine ==
    /\ in_flight = {}
    /\ explored = {}
    /\ permanent_consumers = << >>
    /\ query_offline_nodes = FALSE
    /\ shutdown_token = FALSE
    /\ engine = "idle"
    /\ api_rx = << >>
    /\ ember_sender = << >>
    /\ n_answered = 0
    /\ ember_receiver = << >>
    /\ events = << >>
    /\ sub_dropped = {}
    /\ tree = {}
    /\ listed = {}
    /\ n_calls = [api |-> 0, faults |-> 0]

InitDepack ==
    /\ InitOpen([keepalive |-> FALSE, try_use_non_escaping |-> FALSE, negotiate |-> FALSE], FALSE)
    /\ NoEngine
    /\ NoCodec
    /\ NoProvider

\* unframe hands the next packet to depacketize (tx.send(packet))
PacketArrives ==
    /\ task["unframe"] = "run"
    /\ task["depacketize"] = "run"
    /\ n_in < MaxPackets
    /\ unframe_rx = << >>
    /\ \E p \in Packets : unframe_rx' = << p >>
    /\ n_in' = n_in + 1
    /\ UNCHANGED << provVars, codecVars, consVars, conf, chan, use_non_escaping, attempt, neg_written, task, packetize_rx,
                    frame_rx, send_rx, receive_rx, depacketize_rx, keepalive_request_rx,
                    user, sock, written, buf, dp_last, ka >>

\* the unframe task has ended and dropped its sender
UnframeGone ==
    /\ task["unframe"] = "run"
    /\ task' = [task EXCEPT !["unframe"] = "done"]
    /\ UNCHANGED << provVars, codecVars, consVars, conf, chan, use_non_escaping, attempt, neg_written, packetize_rx,
                    frame_rx, send_rx, receive_rx, unframe_rx, depacketize_rx,
                    keepalive_request_rx, user, sock, written, buf, dp_last, ka, n_in >>

NextDepack ==
    \/ PacketArrives
    \/ Depacketize
    \/ DepacketizeEnds
    \/ UnframeGone
    \/ UserReceives
    \/ UserDropsReceiver

SpecDepack == InitDepack /\ [][NextDepack]_vars

(***************************************************************************)
(* Reassembly claims, checked under SpecDepack.  dp_last describes the     *)
(* iteration of the depacketize loop that ran last: its packet, the buffer *)
(* it found, the Roots it handed to the Root queue and whether the loop    *)
(* went on; buf is the buffer that iteration left.                         *)
(***************************************************************************)
IsSingle == dp_last.seen /\ dp_last.packet.flag = "SinglePacket"
IsFirst == dp_last.seen /\ dp_last.packet.flag = "MultiPacketFirst"
IsMiddle == dp_last.seen /\ dp_last.packet.flag = "MultiPacket"
IsLast == dp_last.seen /\ dp_last.packet.flag = "MultiPacketLast"
IsEmpty == dp_last.seen /\ dp_last.packet.flag = "EmptyPacket"

\* the payload bytes of the buffered packets, in arrival order
RECURSIVE BufferedBytes(_, _)
BufferedBytes(b, i) ==
    IF i > Len(b) THEN << >> ELSE b[i].payload \o BufferedBytes(b, i + 1)

\* C3: a Root is emitted only at a 'single' packet and at a 'last' packet
\* that finds the buffer non-empty.  At a 'single' packet the Root is the
\* decoding of that packet's payload alone; at such a 'last' packet it is the
\* decoding of the buffered payloads in arrival order followed by the last
\* packet's payload; after either the buffer is empty.  ("Decoded from"
\* is read as: the Root is what decoding yields; a payload that does not
\* decode yields no Root, and a Root is handed over only while the Root
\* receiver exists.)
C3_Reassembly ==
    /\ dp_last.sent # << >> => IsSingle \/ (IsLast /\ dp_last.before # << >>)
    /\ IsSingle =>
          /\ buf = << >>
          /\ dp_last.rx_open => dp_last.sent = BerDecode(dp_last.packet.payload)
    /\ (IsLast /\ dp_last.before # << >>) =>
          /\ buf = << >>
          /\ dp_last.rx_open =>
                dp_last.sent =
                    BerDecode(BufferedBytes(dp_last.before, 1) \o dp_last.packet.payload)

\* C3 witness: a 'last' packet completed a message of three packets and the
\* Root decoded from the three payloads was emitted.
C3_Witness ==
    /\ IsLast
    /\ Len(dp_last.before) = 2
    /\ dp_last.sent = << << dp_last.before[2].payload[1], dp_last.packet.payload[1] >> >>

\* C4: a 'middle' or 'last' packet that finds the buffer empty is dropped
\* (nothing buffered, nothing emitted); a 'first' packet that finds a partial
\* message replaces it, so the buffer holds exactly that packet; a 'single'
\* packet that finds a partial message discards it and emits nothing of it;
\* in each of the four cases the loop goes on with the next packet (it ends
\* at a 'single' packet only when its Root cannot be handed to a receiver
\* that no longer exists).
C4_AnomaliesRecovered ==
    /\ ((IsMiddle \/ IsLast) /\ dp_last.before = << >>) =>
          buf = << >> /\ dp_last.sent = << >> /\ dp_last.running
    /\ (IsFirst /\ dp_last.before # << >>) =>
          buf = << dp_last.packet >> /\ dp_last.sent = << >> /\ dp_last.running
    /\ (IsSingle /\ dp_last.before # << >>) =>
          /\ buf = << >>
          /\ dp_last.sent \in { << >>, BerDecode(dp_last.packet.payload) }
          /\ (dp_last.rx_open \/ BerDecode(dp_last.packet.payload) = << >>) => dp_last.running

\* C4 witness: a 'first' packet arrived while two packets of another message
\* were buffered.
C4_Witness == IsFirst /\ Len(dp_last.before) = 2 /\ buf = << dp_last.packet >>

\* C5: an 'empty' packet leaves the buffer as it found it and emits no Root.
C5_EmptyIsNoOp == IsEmpty => buf = dp_last.before /\ dp_last.sent = << >> /\ dp_last.running

\* C5 witness: an 'empty' packet arrived between the packets of a message.
C5_Witness == IsEmpty /\ Len(buf) = 2

\* the bytes handed to the BER decoder by the iteration that ran last, when
\* it completed a message: a 'single' packet is decoded alone
CompletedBytes ==
    IF dp_last.packet.flag = "SinglePacket"
    THEN dp_last.packet.payload
    ELSE BufferedBytes(dp_last.before, 1) \o dp_last.packet.payload

\* the iteration that ran last completed a message whose payload does not decode
DecodeFailed ==
    /\ IsSingle \/ (IsLast /\ dp_last.before # << >>)
    /\ BerDecode(CompletedBytes) = << >>

\* C13: an iteration that completes a message whose payload does not decode
\* emits nothing, leaves the buffer empty and lets the loop go on; and the
\* iteration that follows it, when it handles a 'single' packet whose payload
\* decodes while the Root receiver exists, puts the decoded Root on the Root
\* queue.
C13_DecodeFailureDropsOneMessage ==
    /\ [](DecodeFailed =>
            /\ dp_last.sent = << >>
            /\ buf = << >>
            /\ dp_last.running
            /\ task["depacketize"] = "run" \/ (task["unframe"] = "done" /\ unframe_rx = << >>))
    /\ [][ ( /\ DecodeFailed
             /\ unframe_rx # << >>
             /\ unframe_rx' = Tail(unframe_rx)
             /\ Head(unframe_rx).flag = "SinglePacket"
             /\ BerDecode(Head(unframe_rx).payload) # << >>
             /\ user.rx ) =>
                depacketize_rx' = depacketize_rx \o BerDecode(Head(unframe_rx).payload)
         ]_vars

\* C13 witness: a 'last' packet completed a message of two packets whose
\* payload does not decode, and the next packet is already waiting.
C13_Witness ==
    /\ DecodeFailed
    /\ IsLast
    /\ Len(dp_last.before) = 1
    /\ task["depacketize"] = "run"
    /\ unframe_rx # << >>
    /\ BerDecode(Head(unframe_rx).payload) # << >>
    /\ Head(unframe_rx).flag = "SinglePacket"

\* the buffer holds the beginning of one message: a 'first' packet, then
\* 'middle' packets only
PartialMessage(b) ==
    /\ b # << >>
    /\ b[1].flag = "MultiPacketFirst"
    /\ \A i \in 2..Len(b) : b[i].flag = "MultiPacket"

\* C39: between two iterations of the depacketize loop the buffer is empty or
\* holds one 'first' packet followed by 'middle' packets only, so it never
\* holds a 'single', 'last' or 'empty' packet; the buffer an iteration found
\* was of that shape too; and after an iteration that handed a message to the
\* decoder (a 'single' packet, or a 'last' packet on a begun message), whether
\* the decode gave a Root or failed, the buffer is empty.
C39_BufferShape ==
    /\ buf = << >> \/ PartialMessage(buf)
    /\ dp_last.seen => (dp_last.before = << >> \/ PartialMessage(dp_last.before))
    /\ \A i \in 1..Len(buf) :
          buf[i].flag \notin {"SinglePacket", "MultiPacketLast", "EmptyPacket"}
    /\ (IsSingle \/ (IsLast /\ dp_last.before # << >>)) => buf = << >>
    /\ dp_last.sent # << >> => buf = << >>
    /\ DecodeFailed => buf = << >>

\* C39 witness: a 'middle' packet was added to a begun message after an
\* 'empty' or stray packet was seen, and the buffer holds 'first', 'middle'.
C39_Witness ==
    /\ IsMiddle
    /\ n_in = MaxPackets
    /\ Len(buf) = 2
    /\ buf[2] = dp_last.packet

(***************************************************************************)
(* The channel of one connection (com.rs ember_channel): the negotiation   *)
(* prelude of a client, then seven tasks joined by bounded queues.  A task *)
(* that ends drops the queue ends it owns: a sender sees its send fail     *)
(* once the receiving task is done, a receiver sees end-of-queue once the  *)
(* queue is drained and every sending task is done.                        *)
(***************************************************************************)
MaxInputs == 2          \* frames read from the peer plus Roots sent by the user

negotiate_max == 3      \* `let max = 3` in negotiate_non_escaping

\* s101.rs S101Frame: Escaping(..) or NonEscaping(..) of EmberPacket(packet),
\* KeepaliveRequest or KeepaliveResponse
S101Frame(non_escaping, command, packet) ==
    [non_escaping |-> non_escaping, command |-> command, packet |-> packet]

\* mutant: a keepalive request that is always framed non-escaping
KeepaliveRequest_NonEscaping(non_escaping) == S101Frame(TRUE, "KeepaliveRequest", None)

KeepaliveRequest(non_escaping) == S101Frame(non_escaping, "KeepaliveRequest", None)

\* mutant: a keepalive response that is always framed escaping
KeepaliveResponse_Escaping(non_escaping) == S101Frame(FALSE, "KeepaliveResponse", None)

KeepaliveResponse(non_escaping) == S101Frame(non_escaping, "KeepaliveResponse", None)

\* s101.rs S101Frame::is_keepalive_request, is_keepalive_response
is_keepalive_request(f) == f.command = "KeepaliveRequest"

is_keepalive_response(f) == f.command = "KeepaliveResponse"

\* mutant: every received frame counts as non-escaping
is_non_escaping_Always(f) == TRUE

\* s101.rs S101Frame::is_non_escaping
is_non_escaping(f) == f.non_escaping

(***************************************************************************)
(* What the peer puts on the wire, frame by frame: the first byte selects  *)
(* the framing (BOF, BOFNE), the command byte is 0x00, 0x01, 0x02 or       *)
(* something else; a non-escaping frame may declare the length zero; the   *)
(* flag byte of an Ember packet may be none of the five Flags.             *)
(***************************************************************************)
WirePackets == { EmberPacket("SinglePacket", << 0 >>), EmberPacket("MultiPacketFirst", << 1 >>) }

\* an Ember packet whose flag byte Flags::try_from does not know
UnknownFlagPacket == EmberPacket("Unknown", << 0 >>)

WireFrames ==
    { [non_escaping |-> ne, command |-> c, packet |-> None] :
          ne \in BOOLEAN, c \in {"KeepaliveRequest", "KeepaliveResponse", "Invalid"} }
    \cup { [non_escaping |-> ne, command |-> "EmberPacket", packet |-> Some(p)] :
               ne \in BOOLEAN, p \in WirePackets \cup {UnknownFlagPacket} }
    \cup { [non_escaping |-> TRUE, command |-> "Empty", packet |-> None] }

\* s101.rs S101Frame::decode with EscapingS101Frame::from_bytes and
\* NonEscapingS101Frame::from_bytes: the command byte 0x02 (keepalive
\* response) is decoded as KeepaliveRequest, like 0x01; an unknown command
\* byte is a Deserialization error; a zero length is Ok(None).  In
\* EmberPacket::from_bytes `Flags::try_from(buf[0] as i32)?` fails with
\* EmberError::S101DecodeError (utils.rs back_to_enum), not Deserialization.
decode(w) ==
    CASE w.command = "Empty" -> [result |-> "none", frame |-> None]
      [] w.command = "Invalid" -> [result |-> "deserialization", frame |-> None]
      [] w.command = "EmberPacket" /\ w.packet[1].flag \notin Flags ->
            [result |-> "s101_decode_error", frame |-> None]
      [] w.command \in {"KeepaliveRequest", "KeepaliveResponse"} ->
            [result |-> "frame", frame |-> Some(KeepaliveRequest(w.non_escaping))]
      [] w.command = "EmberPacket" ->
            [result |-> "frame",
             frame |-> Some(S101Frame(w.non_escaping, "EmberPacket", w.packet))]

\* once the channel is open the peer uses the framing the channel uses
PeerFrames == { w \in WireFrames : w.non_escaping = use_non_escaping }

\* the Roots the user of the channel sends, as content bytes
Roots == { << >>, << 0 >> }

Full(q) == Len(q) >= channel_buf_size

\* the socket halves that have failed are counted against MaxFaults
SocketMayFail == Cardinality({ h \in {"read", "write"} : sock[h] = "error" }) < MaxFaults

Done(t) == task[t] = "done"

Running(t) == chan = "open" /\ task[t] = "run"

negVars == << conf, chan, use_non_escaping, attempt, neg_written >>

depVars == << buf, dp_last >>

(***************************************************************************)
(* The user of the channel: the holder of the Root sender and receiver     *)
(* returned by ember_channel.                                              *)
(***************************************************************************)
\* packetize_tx.send(root); it fails once the packetize task is done
UserSends ==
    /\ chan = "open"
    /\ user.tx
    /\ n_in < MaxInputs
    /\ Done("packetize") \/ ~Full(packetize_rx)
    /\ \E r \in Roots :
          packetize_rx' = IF Done("packetize") THEN packetize_rx ELSE Append(packetize_rx, r)
    /\ n_in' = n_in + 1
    /\ UNCHANGED << provVars, codecVars, consVars, negVars, depVars, task, frame_rx, send_rx, receive_rx, unframe_rx,
                    depacketize_rx, keepalive_request_rx, user, sock, written, ka >>

UserDropsSender ==
    /\ chan = "open"
    /\ user.tx
    /\ user' = [user EXCEPT !.tx = FALSE]
    /\ UNCHANGED << provVars, codecVars, consVars, negVars, depVars, task, packetize_rx, frame_rx, send_rx,
                    receive_rx, unframe_rx, depacketize_rx, keepalive_request_rx, sock,
                    written, ka, n_in >>

(***************************************************************************)
(* Outbound tasks.                                                         *)
(***************************************************************************)
\* packetize: `while let Some(msg) = rx.recv().await`; a failed tx.send leaves
\* the inner `for` loop only, the task goes on with the next message
Packetize ==
    /\ Running("packetize")
    /\ packetize_rx # << >>
    /\ Done("frame") \/ ~Full(frame_rx)
    /\ frame_rx' = IF Done("frame") THEN frame_rx
                   ELSE frame_rx \o to_packets(Head(packetize_rx))
    /\ packetize_rx' = Tail(packetize_rx)
    /\ UNCHANGED << provVars, codecVars, consVars, negVars, depVars, task, send_rx, receive_rx, unframe_rx,
                    depacketize_rx, keepalive_request_rx, user, sock, written, ka, n_in >>

\* packetize: rx.recv() yields None when the user has dropped the Root sender
PacketizeEnds ==
    /\ Running("packetize")
    /\ packetize_rx = << >>
    /\ ~user.tx
    /\ task' = [task EXCEPT !["packetize"] = "done"]
    /\ UNCHANGED << provVars, codecVars, consVars, negVars, depVars, packetize_rx, frame_rx, send_rx, receive_rx,
                    unframe_rx, depacketize_rx, keepalive_request_rx, user, sock, written,
                    ka, n_in >>

\* frame: `tx.send(frame)` on a queue with room whose receiver exists
frame_tx_send_Lost(queue, f) == queue

frame_tx_send(queue, f) == Append(queue, f)

\* frame: wrap the packet in the channel's framing; a failed tx.send ends the task
Frame ==
    /\ Running("frame")
    /\ frame_rx # << >>
    /\ Done("send") \/ ~Full(send_rx)
    /\ IF Done("send")
       THEN /\ task' = [task EXCEPT !["frame"] = "done"]
            /\ frame_rx' = << >>
            /\ UNCHANGED send_rx
       ELSE /\ send_rx' = frame_tx_send(send_rx,
                                 S101Frame(use_non_escaping, "EmberPacket", Some(Head(frame_rx))))
            /\ frame_rx' = Tail(frame_rx)
            /\ UNCHANGED task
    /\ UNCHANGED << provVars, codecVars, consVars, negVars, depVars, packetize_rx, receive_rx, unframe_rx,
                    depacketize_rx, keepalive_request_rx, user, sock, written, ka, n_in >>

\* frame: rx.recv() yields None when packetize is done
FrameEnds ==
    /\ Running("frame")
    /\ frame_rx = << >>
    /\ Done("packetize")
    /\ task' = [task EXCEPT !["frame"] = "done"]
    /\ UNCHANGED << provVars, codecVars, consVars, negVars, depVars, packetize_rx, frame_rx, send_rx, receive_rx,
                    unframe_rx, depacketize_rx, keepalive_request_rx, user, sock, written,
                    ka, n_in >>

\* send: one turn of `while let Some(frame) = rx.recv().await`.  A frame is
\* encoded and written (sock.write_all succeeds); rx.recv() yields None when
\* the frame task and the keepalive task, which holds a clone of the sender,
\* are both done.  The keepalive task only ends on a failed send to this
\* queue, that is after the send task, so the None branch is never taken.
Send ==
    /\ Running("send")
    /\ IF send_rx # << >>
       THEN /\ written' = Some(Head(send_rx))
            /\ send_rx' = Tail(send_rx)
            /\ UNCHANGED task
       ELSE /\ Done("frame")
            /\ Done("keepalive")
            /\ task' = [task EXCEPT !["send"] = "done"]
            /\ UNCHANGED << send_rx, written >>
    /\ UNCHANGED << provVars, codecVars, consVars, negVars, depVars, packetize_rx, frame_rx, receive_rx,
                    unframe_rx, depacketize_rx, keepalive_request_rx, user, sock, ka, n_in >>

\* send: sock.write_all fails; the task leaves its loop and drops the write
\* half and the queue
SendFails ==
    /\ Running("send")
    /\ send_rx # << >>
    /\ SocketMayFail
    /\ sock' = [sock EXCEPT !.write = "error"]
    /\ task' = [task EXCEPT !["send"] = "done"]
    /\ send_rx' = << >>
    /\ UNCHANGED << provVars, codecVars, consVars, negVars, depVars, packetize_rx, frame_rx, receive_rx, unframe_rx,
                    depacketize_rx, keepalive_request_rx, user, written, ka, n_in >>

(***************************************************************************)
(* Inbound tasks.                                                          *)
(***************************************************************************)
\* receive: one iteration of the loop on a frame w read from the socket
ReceiveFrame(w) ==
    /\ Running("receive")
    /\    LET d == decode(w)
              ends == [task EXCEPT !["receive"] = "done"]
          IN IF d.result \in {"none", "deserialization"}
             THEN \* Ok(None), or a Deserialization error that is logged
                  UNCHANGED << task, receive_rx, keepalive_request_rx, ka >>
             ELSE IF d.result # "frame"
             THEN \* any other error: `e => { error!(..); break; }`
                  task' = ends /\ UNCHANGED << receive_rx, keepalive_request_rx, ka >>
             ELSE IF is_keepalive_request(d.frame[1])
             THEN /\ Done("keepalive") \/ ~Full(keepalive_request_rx)
                  /\ ka' = [ka EXCEPT
                              !.requests = IF w.command = "KeepaliveRequest" THEN @ + 1 ELSE @,
                              !.signals = IF Done("keepalive") THEN @ ELSE @ + 1]
                  /\ IF Done("keepalive")
                     THEN task' = ends /\ UNCHANGED keepalive_request_rx
                     ELSE /\ keepalive_request_rx' = Append(keepalive_request_rx, w.command)
                          /\ UNCHANGED task
                  /\ UNCHANGED receive_rx
             ELSE IF is_keepalive_response(d.frame[1])
             THEN UNCHANGED << task, receive_rx, keepalive_request_rx, ka >>
             ELSE /\ Done("unframe") \/ ~Full(receive_rx)
                  /\ IF Done("unframe")
                     THEN task' = ends /\ UNCHANGED receive_rx
                     ELSE receive_rx' = Append(receive_rx, d.frame[1]) /\ UNCHANGED task
                  /\ UNCHANGED << keepalive_request_rx, ka >>
    /\ n_in' = n_in + 1
    /\ UNCHANGED << provVars, codecVars, consVars, negVars, depVars, packetize_rx, frame_rx, send_rx, unframe_rx,
                    depacketize_rx, user, sock, written >>

Receive == n_in < MaxInputs /\ \E w \in PeerFrames : ReceiveFrame(w)

\* receive: the read fails (an I/O error, the peer closed the connection);
\* the task leaves its loop and drops the read half and its senders
ReceiveFails ==
    /\ Running("receive")
    /\ SocketMayFail
    /\ sock' = [sock EXCEPT !.read = "error"]
    /\ task' = [task EXCEPT !["receive"] = "done"]
    /\ UNCHANGED << provVars, codecVars, consVars, negVars, depVars, packetize_rx, frame_rx, send_rx, receive_rx,
                    unframe_rx, depacketize_rx, keepalive_request_rx, user, written, ka,
                    n_in >>

\* unframe: `tx.send(packet)` on a queue with room whose receiver exists
unframe_tx_send_Lost(queue, packet) == queue

unframe_tx_send(queue, packet) == Append(queue, packet)

\* unframe: Ember packets go on to depacketize, every other frame is dropped;
\* a failed tx.send ends the task
Unframe ==
    /\ Running("unframe")
    /\ receive_rx # << >>
    /\ LET f == Head(receive_rx)
       IN IF f.command # "EmberPacket"
          THEN receive_rx' = Tail(receive_rx) /\ UNCHANGED << task, unframe_rx >>
          ELSE /\ Done("depacketize") \/ ~Full(unframe_rx)
               /\ IF Done("depacketize")
                  THEN /\ task' = [task EXCEPT !["unframe"] = "done"]
                       /\ receive_rx' = << >>
                       /\ UNCHANGED unframe_rx
                  ELSE /\ unframe_rx' = unframe_tx_send(unframe_rx, f.packet[1])
                       /\ receive_rx' = Tail(receive_rx)
                       /\ UNCHANGED task
    /\ UNCHANGED << provVars, codecVars, consVars, negVars, depVars, packetize_rx, frame_rx, send_rx,
                    depacketize_rx, keepalive_request_rx, user, sock, written, ka, n_in >>

\* unframe: rx.recv() yields None when receive is done
UnframeEnds ==
    /\ Running("unframe")
    /\ receive_rx = << >>
    /\ Done("receive")
    /\ task' = [task EXCEPT !["unframe"] = "done"]
    /\ UNCHANGED << provVars, codecVars, consVars, negVars, depVars, packetize_rx, frame_rx, send_rx, receive_rx,
                    unframe_rx, depacketize_rx, keepalive_request_rx, user, sock, written,
                    ka, n_in >>

(***************************************************************************)
(* The keepalive task: send_keepalive when a period is configured,         *)
(* send_keepalive_response otherwise.  Both react to                       *)
(* `_ = keepalive_request_rx.recv()`, a pattern that also matches the None *)
(* of a closed queue.                                                      *)
(***************************************************************************)
\* a signal from receive is taken and a response is enqueued for sending
KeepaliveRespond ==
    /\ Running("keepalive")
    /\ keepalive_request_rx # << >>
    /\ Done("send") \/ ~Full(send_rx)
    /\ IF Done("send")
       THEN /\ task' = [task EXCEPT !["keepalive"] = "done"]
            /\ keepalive_request_rx' = << >>
            /\ UNCHANGED << send_rx, ka >>
       ELSE /\ send_rx' = Append(send_rx, KeepaliveResponse(use_non_escaping))
            /\ keepalive_request_rx' = Tail(keepalive_request_rx)
            /\ ka' = [ka EXCEPT
                        !.responses = @ + 1,
                        !.answered = IF Head(keepalive_request_rx) = "KeepaliveRequest"
                                     THEN @ + 1 ELSE @]
            /\ UNCHANGED task
    /\ UNCHANGED << provVars, codecVars, consVars, negVars, depVars, packetize_rx, frame_rx, receive_rx, unframe_rx,
                    depacketize_rx, user, sock, written, n_in >>

\* recv() yields None because receive is done: the branch runs all the same
KeepaliveRecvClosed ==
    /\ Running("keepalive")
    /\ keepalive_request_rx = << >>
    /\ Done("receive")
    /\ Done("send") \/ ~Full(send_rx)
    /\ IF Done("send")
       THEN /\ task' = [task EXCEPT !["keepalive"] = "done"]
            /\ UNCHANGED << send_rx, ka >>
       ELSE /\ send_rx' = Append(send_rx, KeepaliveResponse(use_non_escaping))
            /\ ka' = [ka EXCEPT !.spurious = TRUE]
            /\ UNCHANGED task
    /\ UNCHANGED << provVars, codecVars, consVars, negVars, depVars, packetize_rx, frame_rx, receive_rx, unframe_rx,
                    depacketize_rx, keepalive_request_rx, user, sock, written, n_in >>

\* send_keepalive only: interval.tick() enqueues a keepalive request
KeepaliveTick ==
    /\ Running("keepalive")
    /\ conf.keepalive
    /\ Done("send") \/ ~Full(send_rx)
    /\ IF Done("send")
       THEN /\ task' = [task EXCEPT !["keepalive"] = "done"]
            /\ keepalive_request_rx' = << >>
            /\ UNCHANGED send_rx
       ELSE /\ send_rx' = Append(send_rx, KeepaliveRequest(use_non_escaping))
            /\ UNCHANGED << task, keepalive_request_rx >>
    /\ UNCHANGED << provVars, codecVars, consVars, negVars, depVars, packetize_rx, frame_rx, receive_rx, unframe_rx,
                    depacketize_rx, user, sock, written, ka, n_in >>

(***************************************************************************)
(* com.rs negotiate_non_escaping, run by ember_channel before the tasks    *)
(* are spawned when a client asks for non-escaping framing.  Between a     *)
(* write and its outcome neg_written = attempt + 1.                        *)
(***************************************************************************)
Negotiating == chan = "negotiating"

\* negotiate_non_escaping returns Ok and its locals are gone; ember_channel
\* fixes the framing and spawns the tasks
Open(non_escaping) ==
    /\ chan' = "open"
    /\ use_non_escaping' = non_escaping
    /\ attempt' = 0
    /\ neg_written' = 0
    /\ task' = [t \in Tasks |-> "run"]

\* the non-escaping keepalive request is written to the socket
NegotiateWrite ==
    /\ Negotiating
    /\ neg_written = attempt
    /\ attempt < negotiate_max
    /\ neg_written' = neg_written + 1
    /\ written' = Some(KeepaliveRequest(TRUE))
    /\ UNCHANGED << provVars, codecVars, consVars, depVars, conf, chan, use_non_escaping, attempt, task,
                    packetize_rx, frame_rx, send_rx, receive_rx, unframe_rx, depacketize_rx,
                    keepalive_request_rx, user, sock, ka, n_in >>

\* `socket.write_all(send_buf).await?` fails: ember_channel returns the error
NegotiateWriteFails ==
    /\ Negotiating
    /\ neg_written = attempt
    /\ attempt < negotiate_max
    /\ chan' = "failed"
    /\ sock' = [sock EXCEPT !.write = "error"]
    /\ UNCHANGED << provVars, codecVars, consVars, depVars, conf, use_non_escaping, attempt, neg_written, task, packetize_rx, frame_rx, send_rx, receive_rx, unframe_rx,
                    depacketize_rx, keepalive_request_rx, user, written, ka, n_in >>

\* mutant: the frame decoded during negotiation is not forwarded
receive_tx_send_Dropped(queue, frame) == queue

\* negotiate_non_escaping: receive_tx.send(frame).  The queue holds
\* 1024 * 1024 frames and is empty, and ember_channel holds the receiver, so
\* the send neither waits nor fails.
receive_tx_send(queue, frame) == Append(queue, frame)

\* the decode finishes within the timeout on the peer's frame w
NegotiateDecodedFrame(w) ==
    /\ Negotiating
    /\ neg_written = attempt + 1
    /\    LET d == decode(w)
          IN CASE d.result = "frame" ->
                    \* Ok(Ok(Some(frame))): forward the frame, commit to its framing
                    /\ receive_rx' = receive_tx_send(receive_rx, d.frame[1])
                    /\ Open(is_non_escaping(d.frame[1]))
                    /\ n_in' = n_in + 1
               [] d.result \in {"deserialization", "s101_decode_error"} ->
                    \* Ok(Err(e)) => return Err(e)
                    /\ chan' = "failed"
                    /\ UNCHANGED << use_non_escaping, task, receive_rx, attempt, neg_written,
                                    n_in >>
               [] d.result = "none" ->
                    \* Ok(Ok(None)) falls into `_ => attempt += 1`
                    /\ attempt' = attempt + 1
                    /\ UNCHANGED << chan, use_non_escaping, task, receive_rx, neg_written,
                                    n_in >>
    /\ UNCHANGED << provVars, codecVars, consVars, depVars, conf, packetize_rx, frame_rx, send_rx,
                    unframe_rx, depacketize_rx, keepalive_request_rx, user, sock, written,
                    ka >>

NegotiateDecoded == \E w \in WireFrames : NegotiateDecodedFrame(w)

\* the read fails inside the decode: Ok(Err(e)) => return Err(e)
NegotiateReadFails ==
    /\ Negotiating
    /\ neg_written = attempt + 1
    /\ chan' = "failed"
    /\ sock' = [sock EXCEPT !.read = "error"]
    /\ UNCHANGED << provVars, codecVars, consVars, depVars, conf, use_non_escaping, attempt, neg_written, task, packetize_rx, frame_rx, send_rx, receive_rx, unframe_rx,
                    depacketize_rx, keepalive_request_rx, user, written, ka, n_in >>

\* timeout(Duration::from_secs(1), decode) elapses: `_ => attempt += 1`
NegotiateTimeout ==
    /\ Negotiating
    /\ neg_written = attempt + 1
    /\ attempt' = attempt + 1
    /\ UNCHANGED << provVars, codecVars, consVars, depVars, conf, chan, use_non_escaping, neg_written, task, packetize_rx, frame_rx, send_rx, receive_rx, unframe_rx,
                    depacketize_rx, keepalive_request_rx, user, sock, written, ka, n_in >>

\* `if attempt >= max { break Ok(false) }`
NegotiateGivesUp ==
    /\ Negotiating
    /\ neg_written = attempt
    /\ attempt >= negotiate_max
    /\ Open(FALSE)
    /\ UNCHANGED << provVars, codecVars, consVars, depVars, conf, packetize_rx,
                    frame_rx, send_rx, receive_rx, unframe_rx, depacketize_rx,
                    keepalive_request_rx, user, sock, written, ka, n_in >>

(***************************************************************************)
(* SpecChan: one channel from the call of ember_channel on.                *)
(***************************************************************************)
Confs == [keepalive : BOOLEAN, try_use_non_escaping : BOOLEAN, negotiate : BOOLEAN]

\* ember_channel up to line 75: the queues exist, nothing is spawned
InitNegotiating(c) ==
    /\ conf = c
    /\ chan = "negotiating"
    /\ use_non_escaping = FALSE
    /\ attempt = 0
    /\ neg_written = 0
    /\ task = [t \in Tasks |-> "idle"]
    /\ packetize_rx = << >>
    /\ frame_rx = << >>
    /\ send_rx = << >>
    /\ receive_rx = << >>
    /\ unframe_rx = << >>
    /\ depacketize_rx = << >>
    /\ keepalive_request_rx = << >>
    /\ user = [tx |-> TRUE, rx |-> TRUE]
    /\ sock = [read |-> "ok", write |-> "ok"]
    /\ written = None
    /\ buf = << >>
    /\ dp_last = NoStep
    /\ ka = NoKeepalive
    /\ n_in = 0

InitChan ==
    /\ NoEngine
    /\ NoCodec
    /\ NoProvider
    /\ \E c \in Confs :
          IF c.negotiate /\ c.try_use_non_escaping
          THEN InitNegotiating(c)
          ELSE InitOpen(c, c.try_use_non_escaping)

NextChan ==
    \/ NegotiateWrite
    \/ NegotiateWriteFails
    \/ NegotiateDecoded
    \/ NegotiateReadFails
    \/ NegotiateTimeout
    \/ NegotiateGivesUp
    \/ UserSends
    \/ UserDropsSender
    \/ UserReceives
    \/ UserDropsReceiver
    \/ Packetize
    \/ PacketizeEnds
    \/ Frame
    \/ FrameEnds
    \/ Send
    \/ SendFails
    \/ Receive
    \/ ReceiveFails
    \/ Unframe
    \/ UnframeEnds
    \/ Depacketize
    \/ DepacketizeEnds
    \/ KeepaliveRespond
    \/ KeepaliveRecvClosed
    \/ KeepaliveTick

\* Every task that can take a step eventually takes one (the tokio runtime
\* polls every woken task); a sender waiting for room in a queue is served
\* in turn, and select! picks among its ready branches at random, so the
\* steps that wait for room in the send queue are strongly fair.  The user
\* takes what its Root receiver holds for as long as it keeps the receiver.
\* Nothing else is assumed of the user, and nothing of the peer and the
\* socket.
FairChan ==
    /\ WF_vars(NegotiateWrite \/ NegotiateTimeout \/ NegotiateGivesUp)
    /\ WF_vars(Packetize \/ PacketizeEnds)
    /\ SF_vars(Frame \/ FrameEnds)
    /\ WF_vars(Send)
    /\ WF_vars(Unframe \/ UnframeEnds)
    /\ WF_vars(Depacketize \/ DepacketizeEnds)
    /\ SF_vars(KeepaliveRespond \/ KeepaliveRecvClosed)
    /\ WF_vars(KeepaliveTick)
    /\ WF_vars(UserReceives)

SpecChan == InitChan /\ [][NextChan]_vars /\ FairChan

(***************************************************************************)
(* Claims about the channel, checked under SpecChan.                       *)
(***************************************************************************)
AllTasksDone == \A t \in Tasks : Done(t)

\* a send on the Root sender fails: the packetize task has dropped its receiver
SenderObservesClosed == Done("packetize")

\* a recv on the Root receiver yields end-of-queue
ReceiverObservesClosed == Done("depacketize") /\ depacketize_rx = << >>

SocketFailed == chan = "open" /\ (sock.read = "error" \/ sock.write = "error")

\* C6: after a failed read or a failed write on the socket of an open
\* channel, eventually every task of the channel has terminated and the
\* user's Root sender and Root receiver both observe the channel as closed.
C6_IoErrorTearsDown ==
    SocketFailed ~> (AllTasksDone /\ SenderObservesClosed /\ ReceiverObservesClosed)

\* the consumer engine has stopped: its Root sender and Root receiver are dropped
EngineStopped == chan = "open" /\ ~user.tx /\ ~user.rx

\* C7: once the engine has dropped its Root sender and its Root receiver,
\* eventually every task of the channel has terminated (so the send and the
\* receive task have released their socket halves), whatever the peer does.
C7_EngineStopEndsTasks == EngineStopped ~> AllTasksDone

\* every keepalive response waiting in the send queue is framed as the channel is
ResponsesFramed ==
    \A i \in 1..Len(send_rx) :
        is_keepalive_response(send_rx[i]) => is_non_escaping(send_rx[i]) = use_non_escaping

\* C9: with and without a keepalive period, while the send queue of the
\* channel is served every keepalive request read from the peer is eventually
\* answered by a keepalive response enqueued for sending; no more requests
\* are answered than were read, a response that answers no request is
\* enqueued only after the receive task has ended, and every response
\* enqueued is framed in the channel's framing mode.
C9_KeepaliveAnswered ==
    /\ [](ResponsesFramed /\ ka.answered <= ka.requests)
    /\ [](ka.spurious => Done("receive"))
    /\ \A n \in 1..MaxInputs :
          (ka.requests >= n) ~> (ka.answered >= n \/ Done("send"))

\* C9 witness: a channel with a keepalive period and non-escaping framing has
\* answered the keepalive request it received and the response waits for sending.
C9_Witness ==
    /\ conf.keepalive
    /\ use_non_escaping
    /\ ka.requests >= 1
    /\ ka.answered = ka.requests
    /\ \E i \in 1..Len(send_rx) : is_keepalive_response(send_rx[i])

\* C10: in every step of the negotiation of a client that asked for
\* non-escaping framing: a request is written only as a non-escaping
\* keepalive request and never as a fourth one; the client commits on a frame
\* only while it waits for the answer to a request, and then to non-escaping
\* iff that frame is non-escaping; it commits without a frame only after
\* three attempts, all written and all without a frame, and then to escaping.
C10_Negotiation ==
    [][ /\ (Negotiating /\ Negotiating' /\ neg_written' # neg_written) =>
              /\ neg_written' <= 3
              /\ written' = Some(KeepaliveRequest(TRUE))
        /\ (Negotiating /\ chan' = "open" /\ receive_rx' # << >>) =>
              /\ neg_written = attempt + 1
              /\ use_non_escaping' = receive_rx'[1].non_escaping
        /\ (Negotiating /\ chan' = "open" /\ receive_rx' = << >>) =>
              /\ attempt = 3
              /\ neg_written = 3
              /\ ~use_non_escaping'
      ]_vars

\* C10 witness: the client has committed to escaping on an escaping frame
\* that answered one of its requests; the frame waits in the inbound queue.
C10_Witness ==
    /\ conf.negotiate
    /\ conf.try_use_non_escaping
    /\ chan = "open"
    /\ ~use_non_escaping
    /\ receive_rx # << >>
    /\ ~receive_rx[1].non_escaping
    /\ written = Some(KeepaliveRequest(TRUE))

\* the frames S101Frame::decode can yield
DecodedFrames == { decode(w).frame[1] : w \in { v \in WireFrames : decode(v).result = "frame" } }

C12_ReceiveEndsOnlyOnIoError ==
    [][ (Running("receive") /\ Done("receive")') =>
            (sock'.read = "error" \/ Done("unframe") \/ Done("keepalive"))
      ]_vars

\* C35: the keepalive task has enqueued at most as many keepalive responses
\* as the receive task has sent it request signals, and none for a recv()
\* on the signal queue that found the queue closed.
C35_ResponseOnlyForRequestSignal ==
    /\ ka.responses <= ka.signals
    /\ ~ka.spurious

\* C36: the receive task has signalled the keepalive task at most once for
\* each keepalive request (command byte 0x01) it has read, so that a frame
\* with the command byte 0x02 has caused no signal, and the keepalive task
\* has enqueued at most one response for each request read.
C36_ResponseCausesNoFrame ==
    /\ ka.signals <= ka.requests
    /\ ka.responses <= ka.requests
    /\ \A i \in 1..Len(keepalive_request_rx) : keepalive_request_rx[i] = "KeepaliveRequest"

\* C38: once the channel is open its framing mode does not change; without
\* negotiation it is the configured one, and it is non-escaping only if
\* non-escaping was asked for; every frame in the send queue, enqueued by
\* the frame task or by the keepalive task, is framed in that mode; and a
\* frame written to the socket is a non-escaping keepalive request when
\* the negotiation writes it and is framed in the channel's mode otherwise.
C38_FramingFixed ==
    [][ /\ chan = "open" => (chan' = "open" /\ use_non_escaping' = use_non_escaping)
        /\ chan' = "open" =>
              /\ use_non_escaping' => conf.try_use_non_escaping
              /\ ~conf.negotiate => use_non_escaping' = conf.try_use_non_escaping
        /\ \A i \in 1..Len(send_rx') : is_non_escaping(send_rx'[i]) = use_non_escaping'
        /\ (written' # written) =>
              IF Negotiating
              THEN written' = Some(S101Frame(TRUE, "KeepaliveRequest", None))
              ELSE is_non_escaping(written'[1]) = use_non_escaping
      ]_vars

\* a client that negotiated and fell back to escaping has written an
\* escaping frame to the socket, and escaping frames of the frame task and
\* of the keepalive task wait in the send queue
C38_Witness ==
    /\ conf.negotiate /\ conf.try_use_non_escaping
    /\ chan = "open" /\ ~use_non_escaping
    /\ written # None /\ ~is_non_escaping(written[1])
    /\ send_rx # << >>
    /\ ~is_non_escaping(send_rx[1])

(***************************************************************************)
(* SpecInbound: the tasks of an open channel with a peer that sends up to  *)
(* MaxFrames frames, among them two different messages, one of them in two *)
(* packets, and a packet that does not decode.                             *)
(***************************************************************************)
MaxFrames == 3     \* frames read from the peer in SpecInbound

InboundPackets ==
    { EmberPacket("SinglePacket", << 0 >>), EmberPacket("SinglePacket", << 1 >>),
      EmberPacket("MultiPacketFirst", << 1 >>), EmberPacket("MultiPacketLast", << 0 >>) }

InboundFrames ==
    { [non_escaping |-> use_non_escaping, command |-> c, packet |-> None] :
          c \in {"KeepaliveRequest", "Invalid"} }
    \cup { [non_escaping |-> use_non_escaping, command |-> "EmberPacket", packet |-> Some(p)] :
               p \in InboundPackets }

\* receive: one iteration of the loop on a frame of InboundFrames
ReceiveInbound == n_in < MaxFrames /\ \E w \in InboundFrames : ReceiveFrame(w)

InitInbound ==
    /\ NoEngine
    /\ NoCodec
    /\ NoProvider
    /\ \E c \in { d \in Confs : ~d.negotiate } : InitOpen(c, c.try_use_non_escaping)

NextInbound ==
    \/ UserSends
    \/ UserDropsSender
    \/ UserReceives
    \/ UserDropsReceiver
    \/ Packetize
    \/ PacketizeEnds
    \/ Frame
    \/ FrameEnds
    \/ Send
    \/ SendFails
    \/ ReceiveInbound
    \/ ReceiveFails
    \/ Unframe
    \/ UnframeEnds
    \/ Depacketize
    \/ DepacketizeEnds
    \/ KeepaliveRespond
    \/ KeepaliveRecvClosed
    \/ KeepaliveTick

SpecInbound == InitInbound /\ [][NextInbound]_vars

\* the Ember packets in a sequence of frames, in order
RECURSIVE PacketsIn(_)
PacketsIn(frames) ==
    IF frames = << >> THEN << >>
    ELSE (IF Head(frames).command = "EmberPacket" THEN Head(frames).packet ELSE << >>)
         \o PacketsIn(Tail(frames))

\* the packets received and not yet handled by depacketize, oldest first
Stream == unframe_rx \o PacketsIn(receive_rx)

\* the message that the j-th packet of ps completes, if any: a 'single'
\* packet is a message; a 'last' packet completes the message begun by the
\* nearest 'first' packet before it when only 'middle' and 'empty' packets
\* lie between them.  The result is the decoded Root, or nothing.
NonEmptyPacket(p) == p.flag # "EmptyPacket"

MessageAt(ps, j) ==
    IF ps[j].flag = "SinglePacket" THEN BerDecode(ps[j].payload)
    ELSE IF ps[j].flag = "MultiPacketLast"
              /\ \E i \in 1..(j - 1) :
                    /\ ps[i].flag = "MultiPacketFirst"
                    /\ \A k \in (i + 1)..(j - 1) : ps[k].flag \in {"MultiPacket", "EmptyPacket"}
    THEN LET i == CHOOSE i \in 1..(j - 1) :
                    /\ ps[i].flag = "MultiPacketFirst"
                    /\ \A k \in (i + 1)..(j - 1) : ps[k].flag \in {"MultiPacket", "EmptyPacket"}
         IN BerDecode(BufferedBytes(SelectSeq(SubSeq(ps, i, j), NonEmptyPacket), 1))
    ELSE << >>

\* the Roots of the messages completed within ps[1..j], in order
RECURSIVE MessagesUpTo(_, _)
MessagesUpTo(ps, j) == IF j = 0 THEN << >> ELSE MessagesUpTo(ps, j - 1) \o MessageAt(ps, j)

\* what the holder of the Root receiver has yet to be handed: the Roots
\* queued for it, then the messages that the buffered and the received
\* packets complete
Owed == depacketize_rx \o MessagesUpTo(buf \o Stream, Len(buf) + Len(Stream))

\* the packet that a frame read from the socket carries, if it decodes to one
PacketOf(w) ==
    IF decode(w).result = "frame" /\ decode(w).frame[1].command = "EmberPacket"
    THEN decode(w).frame[1].packet
    ELSE << >>

OutPackets == PacketsIn(send_rx) \o frame_rx

MaxArc == 2      \* child numbers range over 1..MaxArc
MaxElems == 3    \* number of elements in the provider's tree
MaxCalls == 2    \* API calls (each registers one subscriber)

Arcs == 1..MaxArc

\* glow.rs RelativeOid: a sequence of arcs; root() is the empty sequence
root == << >>

\* a join that puts the number in front
join_Prepend(p, number) == << number >> \o p

\* utils.rs join.  `number as u32` keeps the 32 bits of the Integer32; an arc
\* is written here as the Integer32 with its bits, so that a negative number
\* stands for the arc 2^32 + number.
join(p, number) == Append(p, number)

\* glow.rs RelativeOid::parent
parent(oid) == IF oid = << >> THEN oid ELSE SubSeq(oid, 1, Len(oid) - 1)

(***************************************************************************)
(* A tree node is a record: kind (the variant without "Qualified"),        *)
(* qualified, id (the number of an unqualified node, the path of a         *)
(* qualified one), contents and children.  Contents are reduced to what    *)
(* the engine reads: whether a field counted by is_empty() is set          *)
(* (identifier) and the isOnline flag.                                     *)
(***************************************************************************)
TreeNodeRoot == [kind |-> "Root"]

Contents(identifier, is_online) == [identifier |-> identifier, is_online |-> is_online]

TreeNode(kind, qualified, id, contents, children) ==
    [kind |-> kind, qualified |-> qualified, id |-> id, contents |-> contents,
     children |-> children]

\* glow.rs TreeNode::oid
oid_of(node, p) ==
    IF node.kind = "Root" THEN root
    ELSE IF node.qualified THEN node.id
    ELSE join(p, node.id)

\* glow.rs NodeContents::is_empty / ParameterContents::is_empty: isOnline is not counted
contents_is_empty(c) == ~c.identifier

\* glow.rs Node::is_empty, QualifiedNode::is_empty
node_is_empty(node) ==
    /\ (node.children = None \/ node.children[1] = << >>)
    /\ (node.contents = None \/ contents_is_empty(node.contents[1]))

\* glow.rs TreeNode::is_online
is_online_Always(node) == TRUE

is_online(node) ==
    IF node.kind \in {"Node", "Parameter"}
    THEN node.contents = None \/ node.contents[1].is_online # "false"
    ELSE TRUE

\* glow.rs TreeNode::may_have_children: "true", "false", or "todo" for the
\* todo!() arms (Matrix, Template)
may_have_children_Parameter(node) ==
    CASE node.kind = "Root" -> "true"
      [] node.kind \in {"Node", "Parameter"} ->
            IF node_is_empty(node) THEN "false" ELSE "true"
      [] OTHER -> "todo"

may_have_children(node) ==
    CASE node.kind = "Root" -> "true"
      [] node.kind = "Node" -> IF node_is_empty(node) THEN "false" ELSE "true"
      [] node.kind = "Parameter" -> "false"
      [] OTHER -> "todo"

\* glow.rs From<TaggedElement> for Option<TreeNode>: Commands and Functions are left out
tree_nodes_of_All(elements) == elements

RECURSIVE tree_nodes_of(_)
tree_nodes_of(elements) ==
    IF elements = << >> THEN << >>
    ELSE IF Head(elements).kind \in {"Command", "Function"}
         THEN tree_nodes_of(Tail(elements))
         ELSE << Head(elements) >> \o tree_nodes_of(Tail(elements))

\* glow.rs TreeNode::children
children_of(node, p) ==
    IF node.kind \in {"Node", "Matrix", "Parameter"} /\ node.children # None
    THEN Some([path |-> oid_of(node, p), nodes |-> tree_nodes_of(node.children[1])])
    ELSE None

\* glow.rs Command::get_directory(Some(FieldFlags::All)), as an element
GetDirectory == [kind |-> "Command", number |-> 32, options |-> "All"]

\* glow.rs TreeNode::get_directory: the OID asked for and the request Root
get_directory(node, p) ==
    CASE node.kind = "Root" ->
            Some([oid |-> root,
                  request |-> [root |-> "Elements", elements |-> << GetDirectory >>]])
      [] node.kind \in {"Node", "Matrix", "Parameter"} ->
            Some([oid |-> oid_of(node, p),
                  request |-> [root |-> "Elements",
                               elements |-> << TreeNode(node.kind, TRUE, oid_of(node, p), None,
                                                        Some(<< GetDirectory >>)) >>]])
      [] OTHER -> None

(***************************************************************************)
(* The engine's handlers are functions of the engine state `st`, a record  *)
(* of in_flight, explored, the requests sent, the events sent to each      *)
(* subscriber, and `result`: "continue" while the handler returned false,  *)
(* "break" once it returned true, "panic" once it hit a todo!().           *)
(***************************************************************************)
ElementEvent(p, node) == [type |-> "Element", parent |-> p, node |-> node]

FullTreeReceived(count) == [type |-> "FullTreeReceived", count |-> count]

\* `for consumer in &self.permanent_consumers { if consumer.send(ev).await.is_err()
\* { return Ok(true) } }`: a send fails when the subscriber dropped its receiver
RECURSIVE send_to_consumers(_, _, _)
send_to_consumers(st, ev, i) ==
    IF i > Len(st.consumers) THEN st
    ELSE IF st.consumers[i] \in st.dropped THEN [st EXCEPT !.result = "break"]
    ELSE send_to_consumers(
             [st EXCEPT !.events[st.consumers[i]] = Append(@, ev),
                        !.log = Append(@, [op |-> "send", ev |-> ev,
                                           consumer |-> st.consumers[i],
                                           in_flight |-> st.in_flight,
                                           explored |-> st.explored,
                                           sent |-> Len(st.sent)])],
             ev, i + 1)

\* consumer.rs EmberConsumer::fetch_recursive.  ember_sender.send cannot fail
\* while the engine holds the sender: its receiver is owned by the packetize
\* task, which ends only when every sender is gone.
fetch_recursive(st, p, node) ==
    LET gd == get_directory(node, p)
    IN IF gd = None THEN st
       ELSE IF ~is_online(node) /\ ~st.query_offline_nodes THEN st
       ELSE [st EXCEPT !.in_flight = @ \cup {gd[1].oid}, !.sent = Append(@, gd[1]),
                       !.log = Append(@, [op |-> "insert", oid |-> gd[1].oid])]

\* consumer.rs process_ember_node, `else` branch: the node has no children list
leaf_node(st, p, node) ==
    LET oid == oid_of(node, p)
        mhc == may_have_children(node)
        st1 == IF mhc = "true" /\ oid \notin st.explored
               THEN fetch_recursive([st EXCEPT !.explored = @ \cup {oid}], p, node)
               ELSE st
    IN IF mhc = "todo" THEN [st EXCEPT !.result = "panic"]
       ELSE IF st1.result # "continue" THEN st1
       ELSE send_to_consumers(st1, ElementEvent(p, node), 1)

\* consumer.rs process_ember_node, tail: `if self.in_flight.remove(&parent) { ... }`
in_flight_remove_NotOnlyWhenEmpty(st, p) ==
    IF p \notin st.in_flight THEN st
    ELSE LET st1 == [st EXCEPT !.in_flight = @ \ {p},
                               !.log = Append(@, [op |-> "remove", oid |-> p])]
         IN send_to_consumers(st1, FullTreeReceived(Cardinality(st1.explored)), 1)

in_flight_remove(st, p) ==
    IF p \notin st.in_flight THEN st
    ELSE LET st1 == [st EXCEPT !.in_flight = @ \ {p},
                               !.log = Append(@, [op |-> "remove", oid |-> p])]
         IN IF st1.in_flight = {}
            THEN send_to_consumers(st1, FullTreeReceived(Cardinality(st1.explored)), 1)
            ELSE st1

\* consumer.rs EmberConsumer::process_ember_node, and its loop over the children
RECURSIVE process_ember_node(_, _, _), process_children(_, _, _)
process_ember_node(st, p, node) ==
    LET ch == children_of(node, p)
        st1 == IF ch # None THEN process_children(st, ch[1].path, ch[1].nodes)
               ELSE leaf_node(st, p, node)
    IN IF st1.result # "continue" THEN st1 ELSE in_flight_remove(st1, p)

process_children(st, path, nodes) ==
    IF nodes = << >> THEN st
    ELSE LET st1 == process_ember_node(st, path, Head(nodes))
         IN IF st1.result # "continue" THEN st1
            ELSE process_children(st1, path, Tail(nodes))

\* consumer.rs process_ember_message, the loop over a RootElementCollection:
\* Commands and Functions are logged; a qualified element is processed with
\* the parent of its path, an unqualified one with the root as parent
RECURSIVE process_root_elements(_, _)
process_root_elements(st, elements) ==
    IF elements = << >> THEN st
    ELSE LET e == Head(elements)
             st1 == IF e.kind \in {"Command", "Function"} THEN st
                    ELSE process_ember_node(st, IF e.qualified THEN parent(e.id) ELSE root, e)
         IN IF st1.result # "continue" THEN st1
            ELSE process_root_elements(st1, Tail(elements))

\* consumer.rs EmberConsumer::process_ember_message
process_ember_message(st, msg) ==
    IF msg.root = "Elements" THEN process_root_elements(st, msg.elements)
    ELSE [st EXCEPT !.result = "panic"]      \* Root::Streams, Root::InvocationResult: todo!()

(***************************************************************************)
(* The engine task (EmberConsumer::start, run) as actions.                 *)
(***************************************************************************)
\* The field log is not state of the engine: it lists, in order, what one
\* handler did to in_flight (insert, remove) and each event it sent, with
\* in_flight, explored and the number of requests sent at that moment.
EngineState ==
    [in_flight |-> in_flight, explored |-> explored, sent |-> ember_sender,
     events |-> events, consumers |-> permanent_consumers, dropped |-> sub_dropped,
     query_offline_nodes |-> query_offline_nodes, result |-> "continue",
     log |-> << >>]

\* What a handler leaves behind.  When it returned true, run leaves its loop
\* and cancels the token (consumer.rs:133); when it panicked, the task is
\* gone and nothing after the loop runs.  Either way `self` and the receiver
\* `rx` of the API queue, both owned by run, are dropped: the subscribers'
\* senders in permanent_consumers and in the queued API messages go with them.
EngineBecomes(st) ==
    /\ in_flight' = st.in_flight
    /\ explored' = st.explored
    /\ ember_sender' = st.sent
    /\ events' = st.events
    /\ permanent_consumers' = IF st.result = "continue" THEN st.consumers ELSE << >>
    /\ engine' = CASE st.result = "continue" -> "running"
                   [] st.result = "break" -> "stopped"
                   [] st.result = "panic" -> "panicked"
    /\ shutdown_token' = (shutdown_token \/ st.result = "break")

\* consumer.rs run, first select! branch: process_api_message
ProcessApiMessage ==
    /\ engine = "running"
    /\ api_rx # << >>
    /\ LET msg == Head(api_rx)
           st == [EngineState EXCEPT !.consumers = Append(@, msg.consumer)]
           st1 == fetch_recursive(st, msg.parent, msg.node)
       IN /\ EngineBecomes(st1)
          /\ api_rx' = IF st1.result = "continue" THEN Tail(api_rx) ELSE << >>
    /\ UNCHANGED << provVars, codecVars, chanVars, query_offline_nodes, n_answered, ember_receiver, sub_dropped,
                    tree, listed, n_calls >>

\* consumer.rs run, second select! branch: process_ember_message
ProcessEmberMessage ==
    /\ engine = "running"
    /\ ember_receiver # << >>
    /\ LET st1 == process_ember_message(EngineState, Head(ember_receiver))
       IN /\ EngineBecomes(st1)
          /\ api_rx' = IF st1.result = "continue" THEN api_rx ELSE << >>
    /\ ember_receiver' = Tail(ember_receiver)
    /\ UNCHANGED << provVars, codecVars, chanVars, query_offline_nodes, n_answered, sub_dropped, tree,
                    listed, n_calls >>

\* consumer.rs run, third select! branch: the token was cancelled
RunCancelled ==
    /\ engine = "running"
    /\ shutdown_token
    /\ engine' = "stopped"
    /\ permanent_consumers' = << >>
    /\ api_rx' = << >>
    /\ UNCHANGED << provVars, codecVars, chanVars, in_flight, explored, query_offline_nodes,
                    shutdown_token, ember_sender, n_answered, ember_receiver,
                    events, sub_dropped, tree, listed, n_calls >>

\* the owner of the CancellationToken given to start_tcp_consumer cancels it
Cancel ==
    /\ ~shutdown_token
    /\ engine = "running"
    /\ n_calls.faults < MaxFaults
    /\ n_calls' = [n_calls EXCEPT !.faults = @ + 1]
    /\ shutdown_token' = TRUE
    /\ UNCHANGED << provVars, codecVars, chanVars, in_flight, explored, permanent_consumers, query_offline_nodes,
                    engine, api_rx, ember_sender, n_answered, ember_receiver, events,
                    sub_dropped, tree, listed >>

\* consumer.rs EmberConsumerApi::fetch_recursive, `self.tx.send(msg).await.ok()`:
\* when the receiver is gone the send fails and the message, with the
\* subscriber's sender in it, is dropped
api_tx_send_Queued(queue, msg, rx_open) == Append(queue, msg)

api_tx_send(queue, msg, rx_open) == IF rx_open THEN Append(queue, msg) ELSE queue

\* consumer.rs EmberConsumerApi::fetch_recursive: a new subscriber queue and a
\* FetchRecursive message; the send is dropped silently when run has ended
ApiCall(p, node, max) ==
    /\ engine # "idle"
    /\ n_calls.api < max
    /\ n_calls' = [n_calls EXCEPT !.api = @ + 1]
    /\ events' = Append(events, << >>)
    /\ api_rx' = api_tx_send(api_rx,
                              [parent |-> p, node |-> node, consumer |-> Len(events) + 1],
                              engine = "running")
    /\ UNCHANGED << provVars, codecVars, chanVars, in_flight, explored, permanent_consumers, query_offline_nodes,
                    shutdown_token, engine, ember_sender, n_answered, ember_receiver,
                    sub_dropped, tree, listed >>

\* consumer.rs EmberConsumerApi::fetch_full_tree
FetchFullTree == ApiCall(root, TreeNodeRoot, MaxCalls)

\* EmberConsumerApi::fetch_recursive called with an element a subscriber was sent
FetchRecursive ==
    \E i \in 1..Len(events) : \E k \in 1..Len(events[i]) :
        /\ events[i][k].type = "Element"
        /\ ApiCall(events[i][k].parent, events[i][k].node, MaxCalls)

\* a subscriber drops the receiver of its queue
SubscriberDrops ==
    \E i \in 1..Len(events) :
        /\ i \notin sub_dropped
        /\ engine = "running"
        /\ n_calls.faults < MaxFaults
        /\ n_calls' = [n_calls EXCEPT !.faults = @ + 1]
        /\ sub_dropped' = sub_dropped \cup {i}
        /\ UNCHANGED << provVars, codecVars, chanVars, in_flight, explored, permanent_consumers,
                        query_offline_nodes, shutdown_token, engine, api_rx, ember_sender,
                        n_answered, ember_receiver, events, tree, listed >>

(***************************************************************************)
(* The provider at the far end of the connection.  It owns a finite tree,  *)
(* fixed the first time each directory is asked for, and answers every     *)
(* GetDirectory with the whole directory, in any order of the elements.    *)
(* An element of the tree is [oid, kind, online].                          *)
(***************************************************************************)
Kinds == {"Node", "Parameter", "Matrix", "Function"}

ChildOptions == {"absent"} \cup (Kinds \X {TRUE}) \cup ({"Node"} \X {FALSE})

Directory(x) == { e \in tree : Len(e.oid) = Len(x) + 1 /\ parent(e.oid) = x }

\* the directories the provider may fix for x, given what it has advertised
NewDirectories(x) ==
    { { [oid |-> join(x, a), kind |-> f[a][1], online |-> f[a][2]] :
            a \in { b \in Arcs : f[b] # "absent" } } :
      f \in { g \in [Arcs -> ChildOptions] :
                /\ Cardinality({ b \in Arcs : g[b] # "absent" }) + Cardinality(tree) <= MaxElems
                /\ (\E b \in Arcs : g[b] # "absent") =>
                      (x = root \/ \E e \in tree : e.oid = x /\ e.kind = "Node") } }

RECURSIVE Perms(_)
Perms(S) ==
    IF S = {} THEN { << >> }
    ELSE UNION { { << x >> \o p : p \in Perms(S \ {x}) } : x \in S }

\* an advertised element as the provider encodes it: with contents, without children
Advertised(e, qualified) ==
    TreeNode(e.kind, qualified, IF qualified THEN e.oid ELSE e.oid[Len(e.oid)],
             Some(Contents(TRUE, IF e.online THEN "true" ELSE "false")), None)

AdvertisedAll(seq, qualified) == [i \in 1..Len(seq) |-> Advertised(seq[i], qualified)]

KindOf(x) == IF \E e \in tree : e.oid = x THEN (CHOOSE e \in tree : e.oid = x).kind ELSE "Node"

\* the Roots with which the provider may answer GetDirectory for x when the
\* directory of x is dir
Answers(x, dir) ==
    IF dir = {} THEN
        IF x = root THEN { [root |-> "Elements", elements |-> << >>] }
        ELSE { [root |-> "Elements",
                elements |-> << TreeNode(KindOf(x), TRUE, x, None, None) >>] }
    ELSE
        { [root |-> "Elements", elements |-> AdvertisedAll(seq, x # root)] : seq \in Perms(dir) }
        \cup
        IF x = root THEN {}
        ELSE { [root |-> "Elements",
                elements |-> << TreeNode(KindOf(x), TRUE, x, None,
                                         Some(AdvertisedAll(seq, FALSE))) >>] :
               seq \in Perms(dir) }

ProviderAnswers ==
    /\ engine = "running"
    /\ n_answered < Len(ember_sender)
    /\ LET x == ember_sender[n_answered + 1].oid
       IN \E dir \in (IF x \in listed THEN { Directory(x) } ELSE NewDirectories(x)) :
            /\ tree' = tree \cup dir
            /\ listed' = listed \cup {x}
            /\ \E msg \in Answers(x, dir) : ember_receiver' = Append(ember_receiver, msg)
    /\ n_answered' = n_answered + 1
    /\ UNCHANGED << provVars, codecVars, chanVars, in_flight, explored, permanent_consumers, query_offline_nodes,
                    shutdown_token, engine, api_rx, ember_sender, events, sub_dropped,
                    n_calls >>

\* a Root that answers no request: a stream collection, an invocation
\* result, or a command at the root
ProviderUnsolicited ==
    /\ engine = "running"
    /\ n_calls.faults < MaxFaults
    /\ n_calls' = [n_calls EXCEPT !.faults = @ + 1]
    /\ \E r \in {[root |-> "Streams"], [root |-> "InvocationResult"],
                 [root |-> "Elements", elements |-> << GetDirectory >>]} :
          ember_receiver' = Append(ember_receiver, r)
    /\ UNCHANGED << provVars, codecVars, chanVars, in_flight, explored, permanent_consumers, query_offline_nodes,
                    shutdown_token, engine, api_rx, ember_sender, n_answered, events,
                    sub_dropped, tree, listed >>

\* the channel before and while the engine runs is not part of Spec
NoChannel ==
    InitOpen([keepalive |-> FALSE, try_use_non_escaping |-> FALSE, negotiate |-> FALSE], FALSE)

\* consumer.rs start_tcp_consumer / EmberConsumer::start
Init ==
    /\ NoChannel
    /\ NoCodec
    /\ NoProvider
    /\ in_flight = {}
    /\ explored = {}
    /\ permanent_consumers = << >>
    /\ query_offline_nodes \in BOOLEAN
    /\ shutdown_token = FALSE
    /\ engine = "running"
    /\ api_rx = << >>
    /\ ember_sender = << >>
    /\ n_answered = 0
    /\ ember_receiver = << >>
    /\ events = << >>
    /\ sub_dropped = {}
    /\ tree = {}
    /\ listed = {}
    /\ n_calls = [api |-> 0, faults |-> 0]

Next ==
    \/ FetchFullTree
    \/ FetchRecursive
    \/ ProcessApiMessage
    \/ ProcessEmberMessage
    \/ RunCancelled
    \/ Cancel
    \/ SubscriberDrops
    \/ ProviderAnswers
    \/ ProviderUnsolicited

Spec == Init /\ [][Next]_vars

(***************************************************************************)
(* Claims about the consumer engine.                                       *)
(***************************************************************************)
\* the FullTreeReceived events subscriber i has been sent
FullTreeEvents(i) ==
    Cardinality({ k \in 1..Len(events[i]) : events[i][k].type = "FullTreeReceived" })

\* every request sent has been answered and every message has been processed
Quiescent ==
    /\ api_rx = << >>
    /\ ember_receiver = << >>
    /\ n_answered = Len(ember_sender)

\* one fetch_full_tree and nothing else from outside the engine (fetch_recursive
\* needs an element of an earlier call); the provider's tree holds online nodes
\* and parameters only, and no directory that was asked for is empty
FullTreeFetchOnly ==
    /\ Len(events) = 1
    /\ n_calls.faults = 0
    /\ \A e \in tree : e.kind \in {"Node", "Parameter"} /\ e.online
    /\ \A x \in listed : Directory(x) # {}

\* C1: after one fetch_full_tree against a provider that answers every
\* GetDirectory with the whole directory, in any order, the subscriber is
\* never sent more than one FullTreeReceived, and once every answer has been
\* processed in_flight is empty and the subscriber has been sent exactly one.
C1_ExactlyOneFullTreeReceived ==
    FullTreeFetchOnly =>
        /\ FullTreeEvents(1) <= 1
        /\ (Quiescent /\ permanent_consumers # << >>) =>
               (in_flight = {} /\ FullTreeEvents(1) = 1)

\* C2: within one session no two GetDirectory requests the engine has sent
\* are for the same OID, whatever messages and API calls it was given.
C2_OneGetDirectoryPerOid ==
    \A i, j \in 1..Len(ember_sender) :
        ember_sender[i].oid = ember_sender[j].oid => i = j

\* C8: whenever the run loop of the engine has ended, for whatever reason,
\* the engine's cancellation token is cancelled.
C8_TokenCancelledWhenRunEnds ==
    engine \in {"stopped", "panicked"} => shutdown_token

\* the log index of the q-th event a handler sent to subscriber i
NthSend(log, i, q) ==
    CHOOSE n \in 1..Len(log) :
        /\ log[n].op = "send" /\ log[n].consumer = i
        /\ Cardinality({ m \in 1..n : log[m].op = "send" /\ log[m].consumer = i }) = q

\* the n-th entry of a handler's log is a FullTreeReceived sent right after an
\* OID was removed from in_flight (only sends of the same event in between),
\* with in_flight empty, a request sent before, and the size of explored
RemovalEmptiedInFlight(log, n) ==
    /\ log[n].in_flight = {}
    /\ log[n].sent >= 1
    /\ log[n].ev.count = Cardinality(log[n].explored)
    /\ \E j \in 1..(n - 1) :
          /\ log[j].op = "remove"
          /\ \A m \in (j + 1)..(n - 1) : log[m].op = "send" /\ log[m].ev = log[n].ev

\* the events a step adds to the queue of subscriber i
Before(i) == IF i <= Len(events) THEN Len(events[i]) ELSE 0

\* C19: every FullTreeReceived a step adds to a subscriber's queue was sent by
\* process_ember_message, right after an OID was removed from in_flight and
\* with in_flight empty as a result (so a request had been sent before), and
\* it carries the size of explored at that moment.
C19_FullTreeReceivedOnlyWhenEmptied ==
    [][ \A i \in 1..Len(events') : \A k \in (Before(i) + 1)..Len(events'[i]) :
            events'[i][k].type = "FullTreeReceived" =>
                /\ engine = "running"
                /\ ember_receiver # << >>
                /\ ember_receiver' = Tail(ember_receiver)
                /\ LET log == process_ember_message(EngineState, Head(ember_receiver)).log
                       n == NthSend(log, i, k - Before(i))
                   IN /\ log[n].ev = events'[i][k]
                      /\ RemovalEmptiedInFlight(log, n)
      ]_vars

C19_Witness ==
    \E i \in 1..Len(events) : \E k \in 1..Len(events[i]) :
        /\ events[i][k].type = "FullTreeReceived"
        /\ events[i][k].count >= 2
        /\ events[i][k].count = Cardinality(explored)
        /\ in_flight = {}

\* the provider of scenario S5: the root has node 1, node 1 has parameter 1.1
S5Tree ==
    { [oid |-> << 1 >>, kind |-> "Node", online |-> TRUE],
      [oid |-> << 1, 1 >>, kind |-> "Parameter", online |-> TRUE] }

\* one fetch_full_tree, nothing else from outside, against the provider of S5
S5 ==
    /\ Len(events) = 1
    /\ n_calls.faults = 0
    /\ tree \subseteq S5Tree
    /\ \A x \in listed : x \in {root, << 1 >>} => Directory(x) # {}

\* the elements subscriber i has been sent, as (OID, kind)
ElementsSent(i) ==
    { << oid_of(events[i][k].node, events[i][k].parent), events[i][k].node.kind >> :
        k \in { j \in 1..Len(events[i]) : events[i][j].type = "Element" } }

ElementEvents(i) ==
    Cardinality({ k \in 1..Len(events[i]) : events[i][k].type = "Element" })

\* C20: in scenario S5 the engine never sends a GetDirectory other than one
\* for the root and then one for OID 1, and never sends the subscriber a
\* second FullTreeReceived; once the whole tree was advertised and every
\* answer has been processed it has sent exactly those two requests, exactly
\* one FullTreeReceived, and one Element event each for node 1 and for
\* parameter 1.1.
C20_ScenarioS5 ==
    S5 =>
        /\ Len(ember_sender) <= 2
        /\ \A k \in 1..Len(ember_sender) : ember_sender[k].oid = << root, << 1 >> >>[k]
        /\ FullTreeEvents(1) <= 1
        /\ (Quiescent /\ tree = S5Tree) =>
              /\ Len(ember_sender) = 2
              /\ FullTreeEvents(1) = 1
              /\ ElementEvents(1) = 2
              /\ ElementsSent(1) = { << << 1 >>, "Node" >>, << << 1, 1 >>, "Parameter" >> }

C20_Witness ==
    /\ S5
    /\ Quiescent
    /\ tree = S5Tree
    /\ FullTreeEvents(1) = 1
    /\ ElementEvents(1) = 2
    /\ Len(ember_sender) = 2

\* the OIDs for which the engine has sent a GetDirectory
SentOids == { ember_sender[k].oid : k \in 1..Len(ember_sender) }

\* the OIDs of the provider's elements whose contents carry isOnline = false
OfflineOids == { e.oid : e \in { d \in tree : ~d.online } }

\* the Element events sent to any subscriber
ElementsEmitted ==
    { ev \in UNION { { events[i][k] : k \in 1..Len(events[i]) } : i \in 1..Len(events) } :
        ev.type = "Element" }

\* C21: with query_offline_nodes false, no GetDirectory is ever sent for a
\* node advertised with isOnline = false and its OID is never in in_flight;
\* with query_offline_nodes true, every element emitted that may have
\* children, offline or online, has had its GetDirectory sent.
C21_OfflineNodesSkipped ==
    /\ ~query_offline_nodes => OfflineOids \cap (SentOids \cup in_flight) = {}
    /\ query_offline_nodes =>
          \A ev \in ElementsEmitted :
              may_have_children(ev.node) = "true" => oid_of(ev.node, ev.parent) \in SentOids

C21_Witness ==
    /\ ~query_offline_nodes
    /\ \E ev \in ElementsEmitted :
          /\ ~is_online(ev.node)
          /\ oid_of(ev.node, ev.parent) \in explored \ SentOids
    /\ \E ev \in ElementsEmitted :
          /\ is_online(ev.node)
          /\ oid_of(ev.node, ev.parent) \in SentOids

\* a sender of subscriber i's event queue is alive: in the engine's
\* permanent_consumers or in an API message still queued
HasSender(i) ==
    \/ \E k \in 1..Len(permanent_consumers) : permanent_consumers[k] = i
    \/ \E k \in 1..Len(api_rx) : api_rx[k].consumer = i

\* C22: fetch_full_tree can always be called and returns, whatever the state
\* of the engine; once the engine has ended no subscriber's event queue has a
\* sender left (recv yields end-of-queue), and while it runs every queue has
\* one, so no queue stays open without the engine behind it.
C22_ApiFailureIsQueueClosure ==
    /\ (engine # "idle" /\ n_calls.api < MaxCalls) => ENABLED FetchFullTree
    /\ \A i \in 1..Len(events) : HasSender(i) <=> engine = "running"

C22_Witness ==
    /\ engine \in {"stopped", "panicked"}
    /\ Len(events) = 2
    /\ events[1] # << >>
    /\ events[2] = << >>
    /\ ~HasSender(1) /\ ~HasSender(2)

(***************************************************************************)
(* SpecSubs: the engine with up to MaxSubscribers subscribers, each from a *)
(* fetch_full_tree, one of which may drop its receiver.                    *)
(***************************************************************************)
MaxSubscribers == 3

\* consumer.rs EmberConsumerApi::fetch_full_tree, up to MaxSubscribers times
FetchFullTreeSubs == ApiCall(root, TreeNodeRoot, MaxSubscribers)

NextSubs ==
    \/ FetchFullTreeSubs
    \/ ProcessApiMessage
    \/ ProcessEmberMessage
    \/ SubscriberDrops
    \/ ProviderAnswers

SpecSubs == Init /\ [][NextSubs]_vars

\* the events a step adds to the queue of subscriber i
NewEvents(i) == SubSeq(events'[i], Len(events[i]) + 1, Len(events'[i]))

\* subscriber i is registered with the engine and holds its receiver
Registered(i) ==
    /\ \E k \in 1..Len(permanent_consumers) : permanent_consumers[k] = i
    /\ i \notin sub_dropped

\* C24: a step only appends to a subscriber's queue, and it appends the same
\* events, in the same order, to the queue of every subscriber that was
\* registered before the step and holds its receiver.
C24_SubscribersSeeSameOrder ==
    [][ /\ \A i \in 1..Len(events) :
              /\ Len(events'[i]) >= Len(events[i])
              /\ SubSeq(events'[i], 1, Len(events[i])) = events[i]
        /\ \A i, j \in 1..Len(events) :
              (Registered(i) /\ Registered(j)) => NewEvents(i) = NewEvents(j)
      ]_vars

\* a sequence of elements without its Commands and Functions, at every depth
RECURSIVE WithoutCommandsAndFunctions(_)
WithoutCommandsAndFunctions(elements) ==
    IF elements = << >> THEN << >>
    ELSE LET e == Head(elements)
             rest == WithoutCommandsAndFunctions(Tail(elements))
         IN IF e.kind \in {"Command", "Function"} THEN rest
            ELSE IF e.children = None THEN << e >> \o rest
            ELSE << [e EXCEPT !.children = Some(WithoutCommandsAndFunctions(e.children[1]))] >>
                 \o rest

\* the message at the head of the engine's queue carries a Command or a Function
CarriesCommandOrFunction(msg) ==
    /\ msg.root = "Elements"
    /\ WithoutCommandsAndFunctions(msg.elements) # msg.elements

\* C27: the step that processes a message carrying Commands or Functions,
\* qualified or not, at the root or among the children of a node, leaves
\* in_flight, explored, the requests sent and every subscriber's events
\* exactly as processing the message without them would: nothing is emitted,
\* requested or recorded for a Command or a Function.
C27_CommandsAndFunctionsDiscarded ==
    [][ (/\ engine = "running"
         /\ ember_receiver # << >>
         /\ ember_receiver' = Tail(ember_receiver)
         /\ CarriesCommandOrFunction(Head(ember_receiver))) =>
            LET msg == Head(ember_receiver)
                st == process_ember_message(
                          EngineState,
                          [msg EXCEPT !.elements = WithoutCommandsAndFunctions(@)])
            IN /\ in_flight' = st.in_flight
               /\ explored' = st.explored
               /\ ember_sender' = st.sent
               /\ events' = st.events
               /\ (engine' = "running") <=> (st.result = "continue")
               /\ WithoutCommandsAndFunctions(msg.elements) = << >> =>
                     /\ in_flight' = in_flight
                     /\ explored' = explored
                     /\ ember_sender' = ember_sender
                     /\ events' = events
      ]_vars

\* a directory that held a Function beside a Node was processed: the Node
\* was emitted and requested, nothing was emitted for the Function
C27_Witness ==
    /\ \E e \in tree : e.kind = "Function" /\ Len(e.oid) = 1
    /\ \E e \in tree : e.kind = "Node" /\ Len(e.oid) = 1 /\ e.oid \in in_flight
    /\ ember_receiver = << >>
    /\ n_answered = 1
    /\ Len(events) = 1
    /\ Len(events[1]) = 1
    /\ events[1][1].node.kind = "Node"
    /\ engine = "running"

\* the OIDs of the elements subscriber i has been sent
ElementOidsSent(i) == { x[1] : x \in ElementsSent(i) }

\* in a handler's log, nothing is inserted into in_flight and no Element
\* event is sent after a FullTreeReceived was sent
NothingAfterFullTree(log) ==
    \A a, b \in 1..Len(log) :
        (a < b /\ log[a].op = "send" /\ log[a].ev.type = "FullTreeReceived") =>
            /\ log[b].op # "insert"
            /\ log[b].op = "send" => log[b].ev.type # "Element"

\* C31: with one fetch_full_tree against a provider whose tree holds online
\* nodes and parameters only: once the subscriber has been sent a
\* FullTreeReceived, no step sends a further GetDirectory or an Element
\* event for an element the subscriber had not been sent before; and while
\* one inbound message is processed, no GetDirectory and no Element event
\* follows a FullTreeReceived.
C31_FullTreeReceivedIsFinal ==
    [][ FullTreeFetchOnly' =>
          /\ (FullTreeFetchOnly /\ FullTreeEvents(1) >= 1) =>
                /\ ember_sender' = ember_sender
                /\ ElementOidsSent(1)' \subseteq ElementOidsSent(1)
          /\ (engine = "running" /\ ember_receiver # << >>
              /\ ember_receiver' = Tail(ember_receiver)) =>
                NothingAfterFullTree(process_ember_message(EngineState, Head(ember_receiver)).log)
      ]_vars

\* msg is a reply that holds the element x itself and nothing below it: no
\* children and no contents, or a children list that is empty or holds
\* Commands and Functions only
EmptyReplyFor(msg, x) ==
    /\ msg.root = "Elements"
    /\ Len(msg.elements) = 1
    /\ LET e == msg.elements[1]
       IN /\ e.kind \notin {"Command", "Function"}
          /\ e.qualified
          /\ e.id = x
          /\ \/ e.children = None /\ e.contents = None
             \/ e.children # None /\ WithoutCommandsAndFunctions(e.children[1]) = << >>

\* C32: when the engine processes a reply that holds only the element X
\* itself, empty, and X is in in_flight, X is not in in_flight afterwards.
C32_AnsweredRequestClearsInFlight ==
    [][ \A x \in in_flight :
          (/\ engine = "running" /\ ember_receiver # << >>
           /\ ember_receiver' = Tail(ember_receiver)
           /\ EmptyReplyFor(Head(ember_receiver), x)) => x \notin in_flight'
      ]_vars

\* the provider's tree is static and known in full: online nodes and
\* parameters only, every directory has been asked for, none is empty, and
\* nothing from outside has disturbed the engine
WholeTreeListed ==
    /\ n_calls.faults = 0
    /\ root \in listed
    /\ \A e \in tree : e.kind \in {"Node", "Parameter"} /\ e.online
    /\ \A e \in tree : e.kind = "Node" => e.oid \in listed
    /\ \A x \in listed : Directory(x) # {}

\* C33: once every request has been answered and every message and API call
\* has been processed, every queue returned by a fetch_full_tree has been
\* sent a FullTreeReceived and an Element event for every element of the
\* provider's tree, the queues of later calls included.
C33_EveryFetchGetsWholeTree ==
    (WholeTreeListed /\ Quiescent /\ engine = "running") =>
        \A i \in 1..Len(events) :
            /\ FullTreeEvents(i) >= 1
            /\ { e.oid : e \in tree } \subseteq ElementOidsSent(i)

\* C34: the step that processes an inbound message while some subscriber has
\* dropped its receiver and another, registered one holds its receiver
\* leaves the engine running whenever it would with
\* every receiver held, and sends every registered subscriber that holds
\* its receiver the events it would be sent then.
C34_SubscribersIsolated ==
    [][ (/\ engine = "running" /\ ember_receiver # << >>
         /\ ember_receiver' = Tail(ember_receiver)
         /\ sub_dropped # {}
         /\ \E i \in 1..Len(events) : Registered(i)) =>
            LET st == process_ember_message([EngineState EXCEPT !.dropped = {}],
                                            Head(ember_receiver))
            IN /\ st.result = "continue" => engine' = "running"
               /\ \A i \in 1..Len(events) : Registered(i) => events'[i] = st.events[i]
      ]_vars

(***************************************************************************)
(* The S101 frame codec on bytes (s101.rs) and the packet header           *)
(* (ember.rs).  A byte is a number in 0..255.                              *)
(***************************************************************************)
BOF == 254
EOF == 255
CE == 253
XOR == 32
BOFNE == 248
CRC_SEED == 65535
CRC_CHECK == 61624
SLOT_IDENTIFIER == 0
MESSAGE_TYPE == 14
COMMAND_EMBER_PACKET == 0
COMMAND_KEEPALIVE_REQUEST == 1
COMMAND_KEEPALIVE_RESPONSE == 2
VERSION == 1
FLAG_SINGLE_PACKET == 192
FLAG_MULTI_PACKET_FIRST == 128
FLAG_MULTI_PACKET_LAST == 64
FLAG_EMPTY_PACKET == 32
FLAG_MULTI_PACKET == 0
GLOW_VERSION_MAJOR == 2
GLOW_VERSION_MINOR == 50
u8_MAX == 255
u16_MAX == 65535

\* bitwise exclusive or of two naturals
RECURSIVE Xor(_, _)
Xor(a, b) ==
    IF a = 0 THEN b
    ELSE IF b = 0 THEN a
    ELSE 2 * Xor(a \div 2, b \div 2) + ((a + b) % 2)

\* CRC_TABLE[i]: the table of s101.rs is the table of the reflected
\* polynomial 0x8408; entry i is i after eight shift-and-reduce rounds
RECURSIVE crc_rounds(_, _)
crc_rounds(r, n) ==
    IF n = 0 THEN r
    ELSE crc_rounds(IF r % 2 = 1 THEN Xor(r \div 2, 33800) ELSE r \div 2, n - 1)

CRC_TABLE(i) == crc_rounds(i, 8)

\* EscapingS101Frame::update_crc
update_crc(crc, b) == Xor(crc \div 256, CRC_TABLE(Xor(crc, b) % 256))

\* the running CRC over bytes[i..], starting from crc
RECURSIVE crc_of(_, _, _)
crc_of(bytes, i, crc) ==
    IF i > Len(bytes) THEN crc ELSE crc_of(bytes, i + 1, update_crc(crc, bytes[i]))

\* `flag as u8`
flag_byte(f) ==
    CASE f = "SinglePacket" -> FLAG_SINGLE_PACKET
      [] f = "MultiPacketFirst" -> FLAG_MULTI_PACKET_FIRST
      [] f = "MultiPacket" -> FLAG_MULTI_PACKET
      [] f = "MultiPacketLast" -> FLAG_MULTI_PACKET_LAST
      [] f = "EmptyPacket" -> FLAG_EMPTY_PACKET

\* Flags::try_from (back_to_enum): None for a byte that is no flag
Flags_try_from(b) ==
    IF \E f \in Flags : flag_byte(f) = b
    THEN Some(CHOOSE f \in Flags : flag_byte(f) = b)
    ELSE None

\* EmberPacket::to_bytes: flag, dtd, app_bytes, minor, major, payload.  A
\* packet made by EmberPacket::new has dtd 0x01 and app_bytes 0x02; the
\* model's packets carry the Glow version of this crate.
EmberPacket_to_bytes(p) ==
    << flag_byte(p.flag), 1, 2, GLOW_VERSION_MINOR, GLOW_VERSION_MAJOR >> \o p.payload

\* EmberPacket::len: payload.len() + 3 + app_bytes
EmberPacket_len(p) == Len(p.payload) + 3 + 2

\* the outcome of a decoder: result is "frame", "none" (Ok(None)),
\* "deserialization", "s101_decode_error", "io" (read_exact finds the input
\* at its end) or "panic"; next is the index of the first byte not consumed
Decoded(result, frame, next) == [result |-> result, frame |-> frame, next |-> next]

\* EmberPacket::from_bytes.  The four header bytes after the flag are read
\* back into the fields to_bytes wrote them from; the model's packets do
\* not carry them.
EmberPacket_from_bytes(raw) ==
    IF Len(raw) <= 5 THEN [result |-> "deserialization", packet |-> None]
    ELSE IF Flags_try_from(raw[1]) = None
    THEN [result |-> "s101_decode_error", packet |-> None]
    ELSE [result |-> "packet",
          packet |-> Some(EmberPacket(Flags_try_from(raw[1])[1], SubSeq(raw, 6, Len(raw))))]

\* command_byte, the same in EscapingS101Frame and NonEscapingS101Frame
command_byte(f) ==
    CASE f.command = "EmberPacket" -> COMMAND_EMBER_PACKET
      [] f.command = "KeepaliveRequest" -> COMMAND_KEEPALIVE_REQUEST
      [] f.command = "KeepaliveResponse" -> COMMAND_KEEPALIVE_RESPONSE

\* len, the same in both framings
frame_len(f) == 4 + (IF f.command = "EmberPacket" THEN EmberPacket_len(f.packet[1]) ELSE 0)

\* to_bytes, the same in both framings
frame_to_bytes(f) ==
    << SLOT_IDENTIFIER, MESSAGE_TYPE, command_byte(f), VERSION >>
        \o (IF f.command = "EmberPacket" THEN EmberPacket_to_bytes(f.packet[1]) ELSE << >>)

\* an encoder that escapes BOF and EOF only
append_escaping_DelimitersOnly(b) == IF b < BOF THEN << b >> ELSE << CE, Xor(b, XOR) >>

\* EscapingS101Frame::append_escaping
append_escaping(b) == IF b < BOFNE THEN << b >> ELSE << CE, Xor(b, XOR) >>

RECURSIVE escape(_, _)
escape(bytes, i) ==
    IF i > Len(bytes) THEN << >> ELSE append_escaping(bytes[i]) \o escape(bytes, i + 1)

\* `(!crc).to_le_bytes()`
inverted_crc_le(crc) == << (65535 - crc) % 256, (65535 - crc) \div 256 >>

\* EscapingS101Frame::encode
EscapingS101Frame_encode(f) ==
    LET body == frame_to_bytes(f)
    IN << BOF >> \o escape(body \o inverted_crc_le(crc_of(body, 1, CRC_SEED)), 1) \o << EOF >>

\* NonEscapingS101Frame::encode, with the panic of encoded_len and encode
\* for a frame longer than u16::MAX: << >> stands for the panic.  The two
\* length octets are written with to_le_bytes.
NonEscapingS101Frame_encode(f) ==
    LET payload_len == frame_len(f)
    IN IF payload_len <= u8_MAX
       THEN Some(<< BOFNE, 1, payload_len >> \o frame_to_bytes(f))
       ELSE IF payload_len <= u16_MAX
       THEN Some(<< BOFNE, 2, payload_len % 256, payload_len \div 256 >> \o frame_to_bytes(f))
       ELSE None

\* S101Frame::encode: Some(bytes), or None when the encoder panics
S101Frame_encode(f) ==
    IF f.non_escaping THEN NonEscapingS101Frame_encode(f) ELSE Some(EscapingS101Frame_encode(f))

\* EscapingS101Frame::from_bytes on the un-escaped bytes between BOF and
\* EOF, CRC included: `match buf[2]` and the slice buf[4..buf.len() - 2]
\* panic on a buffer that is too short
EscapingS101Frame_from_bytes(raw, next) ==
    IF Len(raw) < 3 THEN Decoded("panic", None, next)
    ELSE IF raw[3] = COMMAND_EMBER_PACKET
    THEN IF Len(raw) < 6 THEN Decoded("panic", None, next)
         ELSE LET p == EmberPacket_from_bytes(SubSeq(raw, 5, Len(raw) - 2))
              IN IF p.result = "packet"
                 THEN Decoded("frame", Some(S101Frame(FALSE, "EmberPacket", p.packet)), next)
                 ELSE Decoded(p.result, None, next)
    ELSE IF raw[3] = COMMAND_KEEPALIVE_REQUEST
    THEN Decoded("frame", Some(KeepaliveRequest(FALSE)), next)
    ELSE IF raw[3] = COMMAND_KEEPALIVE_RESPONSE
    THEN \* `COMMAND_KEEPALIVE_RESPONSE => Ok(EscapingS101Frame::KeepaliveRequest)`
         Decoded("frame", Some(KeepaliveRequest(FALSE)), next)
    ELSE Decoded("deserialization", None, next)

\* EscapingS101Frame::decode: the loop over the bytes after BOF, from data[i]
RECURSIVE EscapingS101Frame_decode(_, _, _, _, _)
EscapingS101Frame_decode(data, i, crc, xor, raw) ==
    IF i > Len(data) THEN Decoded("io", None, i)
    ELSE IF data[i] = BOF THEN Decoded("deserialization", None, i + 1)
    ELSE IF data[i] = EOF
    THEN IF crc # CRC_CHECK
         THEN Decoded("deserialization", None, i + 1)
         ELSE EscapingS101Frame_from_bytes(raw, i + 1)
    ELSE IF data[i] = CE THEN EscapingS101Frame_decode(data, i + 1, crc, TRUE, raw)
    ELSE LET b == IF xor THEN Xor(data[i], XOR) ELSE data[i]
         IN EscapingS101Frame_decode(data, i + 1, update_crc(crc, b), FALSE, Append(raw, b))

\* NonEscapingS101Frame::from_bytes: `match buf[2]` and the slice buf[4..]
\* panic on a buffer that is too short
NonEscapingS101Frame_from_bytes(raw, next) ==
    IF Len(raw) < 3 THEN Decoded("panic", None, next)
    ELSE IF raw[3] = COMMAND_EMBER_PACKET
    THEN IF Len(raw) < 4 THEN Decoded("panic", None, next)
         ELSE LET p == EmberPacket_from_bytes(SubSeq(raw, 5, Len(raw)))
              IN IF p.result = "packet"
                 THEN Decoded("frame", Some(S101Frame(TRUE, "EmberPacket", p.packet)), next)
                 ELSE Decoded(p.result, None, next)
    ELSE IF raw[3] = COMMAND_KEEPALIVE_REQUEST
    THEN Decoded("frame", Some(KeepaliveRequest(TRUE)), next)
    ELSE IF raw[3] = COMMAND_KEEPALIVE_RESPONSE
    THEN \* `COMMAND_KEEPALIVE_RESPONSE => Ok(Self::KeepaliveRequest)`
         Decoded("frame", Some(KeepaliveRequest(TRUE)), next)
    ELSE Decoded("deserialization", None, next)

\* the length octets data[i..i + n - 1] read most significant first:
\* `payload_len = payload_len << 8; payload_len += *b as usize`
RECURSIVE big_endian(_, _, _, _)
big_endian(data, i, n, acc) ==
    IF n = 0 THEN acc ELSE big_endian(data, i + 1, n - 1, acc * 256 + data[i])

\* `let mut buf = [0u8; 65536]` of receive, the buffer the decoders fill
receive_buf_len == 65536

\* NonEscapingS101Frame::decode on the bytes after BOFNE, from data[i]; the
\* decoder slices its buffer to the declared length before it reads the
\* payload, so a declared length beyond the buffer panics.  The model's
\* frames have at most three length octets.
NonEscapingS101Frame_decode(data, i) ==
    IF i > Len(data) THEN Decoded("io", None, i)
    ELSE LET payload_bytes == data[i]
         IN IF payload_bytes = 0 THEN Decoded("none", None, i + 1)
            ELSE IF i + payload_bytes > Len(data) THEN Decoded("io", None, i + 1)
            ELSE LET payload_len == big_endian(data, i + 1, payload_bytes, 0)
                     start == i + 1 + payload_bytes
                 IN IF payload_len = 0 THEN Decoded("none", None, start)
                    ELSE IF payload_len > receive_buf_len
                    THEN Decoded("panic", None, start)    \* &mut buf[..payload_len]
                    ELSE IF start + payload_len - 1 > Len(data)
                    THEN Decoded("io", None, start)
                    ELSE NonEscapingS101Frame_from_bytes(
                             SubSeq(data, start, start + payload_len - 1), start + payload_len)

\* a decoder that reports a first byte that starts no frame as an I/O error
S101Frame_decode_FirstByteIo(data) ==
    IF data = << >> THEN Decoded("io", None, 1)
    ELSE IF data[1] = BOF THEN EscapingS101Frame_decode(data, 2, CRC_SEED, FALSE, << >>)
    ELSE IF data[1] = BOFNE THEN NonEscapingS101Frame_decode(data, 2)
    ELSE Decoded("io", None, 2)

\* S101Frame::decode on a byte stream
S101Frame_decode(data) ==
    IF data = << >> THEN Decoded("io", None, 1)
    ELSE IF data[1] = BOF THEN EscapingS101Frame_decode(data, 2, CRC_SEED, FALSE, << >>)
    ELSE IF data[1] = BOFNE THEN NonEscapingS101Frame_decode(data, 2)
    ELSE Decoded("deserialization", None, 2)

(***************************************************************************)
(* SpecCodec: an encoder is applied to an input, then the matching decoder *)
(* to what the encoder produced.                                           *)
(***************************************************************************)
MaxPayload == 2     \* payload bytes of the packets framed in SpecCodec

\* payload bytes of the framed packets: a plain byte and the bytes that
\* the escaping encoder treats specially
CodecBytes == {0, BOFNE, CE, BOF, EOF}

RECURSIVE SeqsUpTo(_, _)
SeqsUpTo(S, n) ==
    IF n = 0 THEN { << >> }
    ELSE LET shorter == SeqsUpTo(S, n - 1)
         IN shorter \cup { Append(q, x) : q \in { r \in shorter : Len(r) = n - 1 }, x \in S }

Zeros(n) == [i \in 1..n |-> 0]

\* the payload sizes at the edges of the length encodings and of the
\* fragmentation, filled with zeros
EdgeSizes == {255, 256, 1023, 1024, 3072, 65535}

CodecPayloads == SeqsUpTo(CodecBytes, MaxPayload)

\* the frames handed to the encoders: the keepalive frames and the packets
\* with the short payloads in both framings, and the packets with the edge
\* sizes in non-escaping framing, whose length prefix depends on the size
CodecFrames ==
    { S101Frame(ne, c, None) : ne \in BOOLEAN, c \in {"KeepaliveRequest", "KeepaliveResponse"} }
    \cup { S101Frame(ne, "EmberPacket", Some(EmberPacket(f, p))) :
               ne \in BOOLEAN, f \in Flags, p \in CodecPayloads }
    \cup { S101Frame(TRUE, "EmberPacket", Some(EmberPacket("SinglePacket", Zeros(n)))) :
               n \in EdgeSizes }

\* the Roots handed to to_packets, as content bytes; the encoding of a Root
\* is one byte longer than its content
CodecRoots == SeqsUpTo(Bytes, MaxPayload) \cup { Zeros(n) : n \in EdgeSizes }

\* the numbers handed to join: a negative one, zero and the child numbers
CodecNumbers == (0 - 1)..MaxArc

\* the RelativeOids handed to join and to parent: up to MaxArc arcs
CodecOids == SeqsUpTo(CodecNumbers, MaxArc)

InitCodec ==
    /\ NoEngine
    /\ NoProvider
    /\ InitOpen([keepalive |-> FALSE, try_use_non_escaping |-> FALSE, negotiate |-> FALSE], FALSE)
    /\ encoded = None
    /\ reconstructed = None
    /\ wire = << >> /\ read_pos = 1 /\ outcomes = << >> /\ reader = "idle"
    /\ \/ \E f \in CodecFrames : original = << "frame", f >>
       \/ \E r \in CodecRoots : original = << "root", r >>
       \/ \E r \in CodecRoots : original = << "payload", r >>
       \/ \E p \in CodecOids : original = << "oid", p >>

\* frame.encode(..): the bytes written to the socket, or the panic
Encode ==
    /\ original # None
    /\ original[1] = "frame"
    /\ encoded = None
    /\ encoded' = << S101Frame_encode(original[2]) >>
    /\ UNCHANGED << provVars, chanVars, consVars, readVars, original, reconstructed >>

\* S101Frame::decode on the bytes the encoder produced
Decode ==
    /\ original # None
    /\ original[1] = "frame"
    /\ encoded # None
    /\ encoded[1] # None
    /\ reconstructed = None
    /\ reconstructed' = << S101Frame_decode(encoded[1][1]) >>
    /\ UNCHANGED << provVars, chanVars, consVars, readVars, original, encoded >>

\* packet_count(&payload)
PacketCount ==
    /\ original # None
    /\ original[1] = "payload"
    /\ encoded = None
    /\ encoded' = << packet_count(original[2]) >>
    /\ UNCHANGED << provVars, chanVars, consVars, readVars, original, reconstructed >>

\* root.to_packets()
ToPackets ==
    /\ original # None
    /\ original[1] = "root"
    /\ encoded = None
    /\ encoded' = << to_packets(original[2]) >>
    /\ UNCHANGED << provVars, chanVars, consVars, readVars, original, reconstructed >>

\* Root::from_packets(&packets)
FromPackets ==
    /\ original # None
    /\ original[1] = "root"
    /\ encoded # None
    /\ reconstructed = None
    /\ reconstructed' = << from_packets(encoded[1]) >>
    /\ UNCHANGED << provVars, chanVars, consVars, readVars, original, encoded >>

\* join(&oid, number)
Join ==
    /\ original # None
    /\ original[1] = "oid"
    /\ encoded = None
    /\ reconstructed = None
    /\ \E number \in CodecNumbers : encoded' = << join(original[2], number) >>
    /\ UNCHANGED << provVars, chanVars, consVars, readVars, original, reconstructed >>

\* oid.parent(), of the RelativeOid join returned or, when join was not
\* called, of the RelativeOid chosen
Parent ==
    /\ original # None
    /\ original[1] = "oid"
    /\ reconstructed = None
    /\ reconstructed' = << parent(IF encoded = None THEN original[2] ELSE encoded[1]) >>
    /\ UNCHANGED << provVars, chanVars, consVars, readVars, original, encoded >>

NextCodec ==
    \/ Encode
    \/ Decode
    \/ PacketCount
    \/ ToPackets
    \/ FromPackets
    \/ Join
    \/ Parent

SpecCodec == InitCodec /\ [][NextCodec]_vars

(***************************************************************************)
(* Claims about the codecs, checked under SpecCodec.                       *)
(***************************************************************************)
FrameChosen == original # None /\ original[1] = "frame"
RootChosen == original # None /\ original[1] = "root"
PayloadChosen == original # None /\ original[1] = "payload"

\* C14: whenever a frame was encoded and the bytes were decoded again, the
\* decoder returned a frame and it is the frame that was encoded, in
\* escaping and in non-escaping framing.
C14_S101RoundTrip ==
    (FrameChosen /\ reconstructed # None) =>
        /\ reconstructed[1].result = "frame"
        /\ reconstructed[1].frame = Some(original[2])

\* the frame handed to the encoder is a non-escaping frame with a packet
\* whose payload has one of the sizes 0, 1, 255, 256, 65535
EdgeFrameChosen ==
    /\ FrameChosen
    /\ original[2].non_escaping
    /\ original[2].command = "EmberPacket"
    /\ Len(original[2].packet[1].payload) \in {0, 1, 255, 256, 65535}

\* C15: a non-escaping frame with a payload of one of the sizes 0, 1, 255,
\* 256, 65535 is encoded (the encoder does not give up); after BOFNE comes
\* a count byte and that many length octets which, read most significant
\* first, give the number of bytes that follow; and decoding the bytes
\* returns a packet with the same payload.
C15_NonEscapingLength ==
    /\ (EdgeFrameChosen /\ encoded # None) =>
          /\ encoded[1] # None
          /\ LET bytes == encoded[1][1]
             IN /\ bytes[1] = BOFNE
                /\ big_endian(bytes, 3, bytes[2], 0) = Len(bytes) - 2 - bytes[2]
    /\ (EdgeFrameChosen /\ reconstructed # None) =>
          /\ reconstructed[1].result = "frame"
          /\ reconstructed[1].frame[1].packet[1].payload = original[2].packet[1].payload

ExpectedCount(n) == (n \div 1024) + (IF n % 1024 = 0 THEN 0 ELSE 1)

\* C17: packet_count of a payload of N bytes is ceil(N / 1024), 0 for the
\* empty payload, and to_packets produces that many packets for a Root
\* whose encoding has N bytes.
C17_PacketCount ==
    /\ (PayloadChosen /\ encoded # None) => encoded[1] = ExpectedCount(Len(original[2]))
    /\ (RootChosen /\ encoded # None) =>
          Len(encoded[1]) = ExpectedCount(Len(BerEncode(original[2])))

\* C18: the packets of one message: a lone packet carries 'single';
\* otherwise the first carries 'first', the last 'last' and the others
\* 'middle'; every packet but the last has exactly 1024 payload bytes and
\* the last between 1 and 1024.
C18_FlagsAndChunks ==
    (RootChosen /\ encoded # None) =>
        LET ps == encoded[1]
            n == Len(ps)
        IN /\ n >= 1
           /\ n = 1 => ps[1].flag = "SinglePacket"
           /\ n > 1 => \A i \in 1..n :
                 ps[i].flag = (IF i = 1 THEN "MultiPacketFirst"
                               ELSE IF i = n THEN "MultiPacketLast"
                               ELSE "MultiPacket")
           /\ \A i \in 1..(n - 1) : Len(ps[i].payload) = 1024
           /\ Len(ps[n].payload) \in 1..1024

(***************************************************************************)
(* SpecReceive: the receive loop of com.rs on the bytes of the socket.     *)
(* Every iteration calls S101Frame::decode on the bytes not read yet.      *)
(* The queues towards unframe and the keepalive task stay open.            *)
(***************************************************************************)
MaxPieces == 4     \* pieces the peer's byte stream is put together from

\* an escaping frame around the given un-escaped bytes
Escaped(body) == << BOF >> \o escape(body, 1) \o << EOF >>

WithCrc(body) == body \o inverted_crc_le(crc_of(body, 1, CRC_SEED))

KeepaliveBody == << SLOT_IDENTIFIER, MESSAGE_TYPE, COMMAND_KEEPALIVE_REQUEST, VERSION >>
\* the command byte is none of 0x00, 0x01, 0x02
UnknownBody == << SLOT_IDENTIFIER, MESSAGE_TYPE, COMMAND_KEEPALIVE_RESPONSE + 1, VERSION >>

\* what the peer may write: a sound keepalive request in both framings, a
\* byte that starts no frame, an escaping frame cut off before its EOF, an
\* escaping frame whose CRC octets are wrong, and a frame with an unknown
\* command byte in both framings
WirePieces ==
    { Escaped(WithCrc(KeepaliveBody)),
      << BOFNE, 1, 4 >> \o KeepaliveBody,
      << 0 >>,
      << BOF, SLOT_IDENTIFIER, MESSAGE_TYPE >>,
      Escaped(KeepaliveBody \o << 0, 0 >>),
      Escaped(WithCrc(UnknownBody)),
      << BOFNE, 1, 4 >> \o UnknownBody }

RECURSIVE WireStreams(_)
WireStreams(n) ==
    IF n = 0 THEN { << >> }
    ELSE LET shorter == WireStreams(n - 1)
         IN shorter \cup { s \o p : s \in shorter, p \in WirePieces }

InitReceive ==
    /\ NoEngine
    /\ NoProvider
    /\ InitOpen([keepalive |-> FALSE, try_use_non_escaping |-> FALSE, negotiate |-> FALSE], FALSE)
    /\ original = None /\ encoded = None /\ reconstructed = None
    /\ wire \in WireStreams(MaxPieces)
    /\ read_pos = 1
    /\ outcomes = << >>
    /\ reader = "running"

\* receive: one iteration of `loop { match S101Frame::decode(&mut sock, &mut buf).await`
\* on the bytes from read_pos on.  Ok(Some), Ok(None) and a Deserialization
\* error go round the loop again; any other error breaks; a panic ends the task.
ReceiveBytes ==
    /\ reader = "running"
    /\ LET d == S101Frame_decode(SubSeq(wire, read_pos, Len(wire)))
           next == read_pos - 1 + d.next
       IN /\ outcomes' = Append(outcomes, [start |-> read_pos, result |-> d.result,
                                           frame |-> d.frame, next |-> next])
          /\ read_pos' = next
          /\ reader' = IF d.result \in {"frame", "none", "deserialization"} THEN "running"
                       ELSE IF d.result = "panic" THEN "panicked"
                       ELSE "stopped"
    /\ UNCHANGED << provVars, chanVars, consVars, original, encoded, reconstructed, wire >>

NextReceive == ReceiveBytes

SpecReceive == InitReceive /\ [][NextReceive]_vars

(***************************************************************************)
(* Claims about the receive loop on bytes, checked under SpecReceive.      *)
(***************************************************************************)
\* the bytes[i..] with every pair CE, b replaced by b XOR 0x20
RECURSIVE Unescaped(_, _)
Unescaped(bytes, i) ==
    IF i > Len(bytes) THEN << >>
    ELSE IF bytes[i] = CE
    THEN IF i + 1 > Len(bytes) THEN << >>
         ELSE << Xor(bytes[i + 1], XOR) >> \o Unescaped(bytes, i + 2)
    ELSE << bytes[i] >> \o Unescaped(bytes, i + 1)

\* the positions after s where wire holds a BOF or an EOF
Delimiters(s) == { j \in (s + 1)..Len(wire) : wire[j] \in {BOF, EOF} }

First(S) == CHOOSE x \in S : \A y \in S : x <= y

\* the un-escaped bytes of the escaping frame that starts at s and ends at j
Between(s, j) == Unescaped(SubSeq(wire, s + 1, j - 1), 1)

KnownCommands == {COMMAND_EMBER_PACKET, COMMAND_KEEPALIVE_REQUEST, COMMAND_KEEPALIVE_RESPONSE}

InvalidFirstByte(s) == wire[s] \notin {BOF, BOFNE}

UnexpectedBof(s) ==
    /\ wire[s] = BOF /\ Delimiters(s) # {} /\ wire[First(Delimiters(s))] = BOF

InvalidCrc(s) ==
    /\ wire[s] = BOF /\ Delimiters(s) # {} /\ wire[First(Delimiters(s))] = EOF
    /\ crc_of(Between(s, First(Delimiters(s))), 1, CRC_SEED) # CRC_CHECK

UnknownCommandEscaping(s) ==
    /\ wire[s] = BOF /\ Delimiters(s) # {} /\ wire[First(Delimiters(s))] = EOF
    /\ crc_of(Between(s, First(Delimiters(s))), 1, CRC_SEED) = CRC_CHECK
    /\ Len(Between(s, First(Delimiters(s)))) >= 3
    /\ Between(s, First(Delimiters(s)))[3] \notin KnownCommands

\* a non-escaping frame with one length octet, all of it on the wire
UnknownCommandNonEscaping(s) ==
    /\ wire[s] = BOFNE /\ s + 2 <= Len(wire) /\ wire[s + 1] = 1
    /\ wire[s + 2] >= 3 /\ s + 2 + wire[s + 2] <= Len(wire)
    /\ wire[s + 5] \notin KnownCommands

\* the position after the malformed input that starts at s
AfterMalformed(s) ==
    IF InvalidFirstByte(s) THEN s + 1
    ELSE IF wire[s] = BOF THEN First(Delimiters(s)) + 1
    ELSE s + 3 + wire[s + 2]

Malformed(s) ==
    /\ s <= Len(wire)
    /\ \/ InvalidFirstByte(s) \/ UnexpectedBof(s) \/ InvalidCrc(s)
       \/ UnknownCommandEscaping(s) \/ UnknownCommandNonEscaping(s)

\* C28: every call of the decoder that met a first byte that is neither BOF
\* nor BOFNE, a BOF inside an escaping frame, an escaping frame whose CRC
\* does not end at 0xF0B8, or an unknown command byte returned a
\* Deserialization error and consumed the bytes up to and including the
\* offending byte or frame; the loop then was still running, and its next
\* call, if it made one, started at the byte after them.
C28_MalformedInputIsDeserialization ==
    \A k \in 1..Len(outcomes) :
        Malformed(outcomes[k].start) =>
            /\ outcomes[k].result = "deserialization"
            /\ outcomes[k].next = AfterMalformed(outcomes[k].start)
            /\ IF k < Len(outcomes)
               THEN outcomes[k + 1].start = outcomes[k].next
               ELSE reader = "running" /\ read_pos = outcomes[k].next

\* the four cases have happened in one stream, and the loop read on to the
\* end of the stream, where the read fails
C28_Witness ==
    /\ \E k \in 1..Len(outcomes) :
          outcomes[k].start <= Len(wire) /\ InvalidFirstByte(outcomes[k].start)
    /\ \E k \in 1..Len(outcomes) :
          outcomes[k].start <= Len(wire) /\ UnexpectedBof(outcomes[k].start)
    /\ \E k \in 1..Len(outcomes) :
          outcomes[k].start <= Len(wire) /\ InvalidCrc(outcomes[k].start)
    /\ \E k \in 1..Len(outcomes) :
          outcomes[k].start <= Len(wire) /\ UnknownCommandEscaping(outcomes[k].start)
    /\ reader = "stopped"
    /\ read_pos = Len(wire) + 1

(***************************************************************************)
(* SpecReceiveAny: the receive loop on frames that are well delimited but  *)
(* shorter than the S101 header, or that declare more bytes than the       *)
(* buffer holds.                                                           *)
(***************************************************************************)
\* a sound keepalive request in both framings; escaping frames with a valid
\* CRC around no, one and three header bytes; non-escaping frames that
\* declare one and three bytes; a non-escaping frame that declares
\* 0x010001 bytes, one more than the buffer of receive holds
ShortPieces ==
    { Escaped(WithCrc(KeepaliveBody)),
      << BOFNE, 1, 4 >> \o KeepaliveBody,
      Escaped(WithCrc(<< >>)),
      Escaped(WithCrc(<< SLOT_IDENTIFIER >>)),
      Escaped(WithCrc(<< SLOT_IDENTIFIER, MESSAGE_TYPE, COMMAND_EMBER_PACKET >>)),
      << BOFNE, 1, 1, SLOT_IDENTIFIER >>,
      << BOFNE, 1, 3, SLOT_IDENTIFIER, MESSAGE_TYPE, COMMAND_EMBER_PACKET >>,
      << BOFNE, 3, 1, 0, 1 >> }

RECURSIVE ShortStreams(_)
ShortStreams(n) ==
    IF n = 0 THEN { << >> }
    ELSE LET shorter == ShortStreams(n - 1)
         IN shorter \cup { s \o p : s \in shorter, p \in ShortPieces }

InitReceiveAny ==
    /\ NoEngine
    /\ NoProvider
    /\ InitOpen([keepalive |-> FALSE, try_use_non_escaping |-> FALSE, negotiate |-> FALSE], FALSE)
    /\ original = None /\ encoded = None /\ reconstructed = None
    /\ wire \in ShortStreams(MaxPieces)
    /\ read_pos = 1
    /\ outcomes = << >>
    /\ reader = "running"

SpecReceiveAny == InitReceiveAny /\ [][NextReceive]_vars

(***************************************************************************)
(* Claims about short and over-long frames, checked under SpecReceiveAny.  *)
(***************************************************************************)
\* C40: S101 decoding is total.  Every call of the decoder by the receive
\* loop ends with a frame, with Ok(None) or with an error, and the receive
\* task is never aborted by a panic.
C40_DecodingTotal ==
    /\ reader # "panicked"
    /\ \A i \in 1..Len(outcomes) :
          outcomes[i].result \in {"frame", "none", "deserialization", "s101_decode_error", "io"}

(***************************************************************************)
(* SpecNegotiate: negotiate_non_escaping of com.rs on the bytes of the     *)
(* socket, with a peer whose one response frame arrives byte by byte.      *)
(* n_in counts the bytes of wire that have arrived.  When the timeout      *)
(* drops the decode future, the bytes its read_exact calls have taken off  *)
(* the socket are gone; how many of the arrived bytes that is depends on   *)
(* when the future was polled last.                                        *)
(***************************************************************************)
\* the frames the peer may answer with: a keepalive frame in either framing
ResponseStreams ==
    { S101Frame_encode(S101Frame(ne, c, None))[1] :
          ne \in BOOLEAN, c \in {"KeepaliveRequest", "KeepaliveResponse"} }

InitNegotiate ==
    /\ NoEngine
    /\ NoProvider
    /\ InitNegotiating([keepalive |-> FALSE, try_use_non_escaping |-> TRUE, negotiate |-> TRUE])
    /\ original = None /\ encoded = None /\ reconstructed = None
    /\ wire \in ResponseStreams
    /\ read_pos = 1
    /\ outcomes = << >>
    /\ reader = "idle"

\* the next byte of the peer's frame arrives at the socket
PeerByteArrives ==
    /\ Negotiating
    /\ n_in < Len(wire)
    /\ n_in' = n_in + 1
    /\ UNCHANGED << provVars, consVars, codecVars, depVars, conf, chan, use_non_escaping,
                    attempt, neg_written, task, packetize_rx, frame_rx, send_rx, receive_rx,
                    unframe_rx, depacketize_rx, keepalive_request_rx, user, sock, written,
                    ka >>

\* S101Frame::decode on the bytes that have arrived and were not read
DecodeArrived == S101Frame_decode(SubSeq(wire, read_pos, n_in))

\* the decode finishes within the timeout: the bytes that have arrived let
\* every read_exact of it return
NegotiateDecodedBytes ==
    /\ Negotiating
    /\ neg_written = attempt + 1
    /\ LET d == DecodeArrived
       IN /\ d.result # "io"
          /\ read_pos' = read_pos - 1 + d.next
          /\ outcomes' = Append(outcomes, [start |-> read_pos, result |-> d.result,
                                           frame |-> d.frame, next |-> read_pos - 1 + d.next])
          /\ CASE d.result = "frame" ->
                    /\ receive_rx' = receive_tx_send(receive_rx, d.frame[1])
                    /\ Open(is_non_escaping(d.frame[1]))
               [] d.result = "none" ->
                    /\ attempt' = attempt + 1
                    /\ UNCHANGED << chan, use_non_escaping, task, receive_rx, neg_written >>
               [] OTHER ->
                    \* Ok(Err(e)) => return Err(e), or a panic in from_bytes
                    /\ chan' = "failed"
                    /\ UNCHANGED << use_non_escaping, task, receive_rx, attempt, neg_written >>
    /\ UNCHANGED << provVars, consVars, depVars, original, encoded, reconstructed, wire, reader,
                    conf, packetize_rx, frame_rx, send_rx, unframe_rx, depacketize_rx,
                    keepalive_request_rx, user, sock, written, ka, n_in >>

\* timeout(Duration::from_secs(1), decode) elapses while a read_exact of the
\* decode waits for bytes: the future is dropped with what it has read, any
\* number of the bytes that have arrived, and `_ => attempt += 1`
NegotiateTimeoutBytes ==
    /\ Negotiating
    /\ neg_written = attempt + 1
    /\ DecodeArrived.result = "io"
    /\ \E k \in read_pos..(n_in + 1) : read_pos' = k
    /\ attempt' = attempt + 1
    /\ outcomes' = Append(outcomes, [start |-> read_pos, result |-> "timeout",
                                     frame |-> None, next |-> read_pos'])
    /\ UNCHANGED << provVars, consVars, depVars, original, encoded, reconstructed, wire, reader,
                    conf, chan, use_non_escaping, neg_written, task, packetize_rx, frame_rx,
                    send_rx, receive_rx, unframe_rx, depacketize_rx, keepalive_request_rx,
                    user, sock, written, ka, n_in >>

NextNegotiate ==
    \/ NegotiateWrite
    \/ PeerByteArrives
    \/ NegotiateDecodedBytes
    \/ NegotiateTimeoutBytes
    \/ NegotiateGivesUp

SpecNegotiate == InitNegotiate /\ [][NextNegotiate]_vars

(***************************************************************************)
(* Claims about the negotiation on bytes, checked under SpecNegotiate.     *)
(***************************************************************************)
\* C37: with a peer that answers the keepalive request with one sound frame,
\* however slowly, ember_channel does not fail; and what the negotiation has
\* read off the socket when the channel opens is nothing or the whole
\* frame, which it has then forwarded to the unframe task.
C37_SlowPeerTolerated ==
    /\ chan # "failed"
    /\ chan = "open" =>
          \/ read_pos = 1 /\ receive_rx = << >>
          \/ /\ read_pos = Len(wire) + 1
             /\ Len(receive_rx) = 1
             /\ S101Frame_encode(receive_rx[1]) = Some(wire)

(***************************************************************************)
(* Claims about the escaping encoder, checked under SpecCodec.             *)
(***************************************************************************)
\* an escaping frame was handed to the encoder and encoded
EscapingEncoded ==
    /\ FrameChosen /\ ~original[2].non_escaping
    /\ encoded # None /\ encoded[1] # None

\* the bytes the encoder put between the first and the last byte
Inner(bytes) == SubSeq(bytes, 2, Len(bytes) - 1)

\* header, packet and CRC of the frame before escaping, the inverted CRC
\* with its low octet first
Plain(f) ==
    LET body == frame_to_bytes(f)
        inverted == 65535 - crc_of(body, 1, CRC_SEED)
    IN body \o << inverted % 256, inverted \div 256 >>

NeedsEscape(b) == b >= 248

\* C29: the output of the escaping encoder starts with BOF and ends with
\* EOF, and neither occurs in between; in between, every byte is below
\* 0xF8 or is a CE, every CE is followed by a byte b XOR 0x20 with
\* b >= 0xF8, there is one CE for each byte >= 0xF8 of header, packet and
\* inverted CRC (low octet first), and replacing every pair CE, x by
\* x XOR 0x20 yields exactly those bytes.
C29_EscapingEncoderOutput ==
    EscapingEncoded =>
        LET bytes == encoded[1][1]
            inner == Inner(bytes)
            plain == Plain(original[2])
        IN /\ Len(bytes) >= 2
           /\ bytes[1] = BOF
           /\ bytes[Len(bytes)] = EOF
           /\ \A i \in 1..Len(inner) : inner[i] \notin {BOF, EOF}
           /\ \A i \in 1..Len(inner) : inner[i] = CE \/ ~NeedsEscape(inner[i])
           /\ \A i \in 1..Len(inner) :
                 inner[i] = CE =>
                    /\ i < Len(inner)
                    /\ NeedsEscape(Xor(inner[i + 1], XOR))
           /\ Len(inner) = Len(plain) + Cardinality({ i \in 1..Len(plain) : NeedsEscape(plain[i]) })
           /\ Unescaped(inner, 1) = plain

\* a frame was encoded whose packet holds a byte >= 0xF8 and whose
\* inverted CRC has an octet >= 0xF8
C29_Witness ==
    /\ EscapingEncoded
    /\ original[2].command = "EmberPacket"
    /\ \E i \in 1..Len(original[2].packet[1].payload) :
          NeedsEscape(original[2].packet[1].payload[i])
    /\ LET plain == Plain(original[2])
       IN NeedsEscape(plain[Len(plain)]) \/ NeedsEscape(plain[Len(plain) - 1])
    /\ Len(encoded[1][1]) > Len(Plain(original[2])) + 3

(***************************************************************************)
(* Claims about RelativeOid, checked under SpecCodec.                      *)
(***************************************************************************)
OidChosen == original # None /\ original[1] = "oid"

\* C30: the parent of join(p, n) is p, for every RelativeOid p and number n,
\* and the parent of the root, the empty arc sequence, is the root.
C30_ParentOfJoin ==
    /\ (OidChosen /\ encoded # None /\ reconstructed # None) =>
          reconstructed[1] = original[2]
    /\ (OidChosen /\ encoded = None /\ reconstructed # None /\ original[2] = root) =>
          reconstructed[1] = root
    /\ root = << >>

\* the parent of a join of a RelativeOid of two different arcs with a third
\* number, a negative one, was taken
C30_Witness ==
    /\ OidChosen /\ encoded # None /\ reconstructed # None
    /\ Len(original[2]) = 2 /\ original[2][1] # original[2][2]
    /\ encoded[1] = Append(original[2], 0 - 1)
    /\ reconstructed[1] = original[2]

(***************************************************************************)
(* The provider's accept loop (provider.rs).  SpecProv: start_tcp_provider *)
(* has bound the listener and spawned accept_clients; up to MaxClients     *)
(* clients connect; the owner of the token may cancel it at any time.      *)
(***************************************************************************)
MaxClients == 3

\* provider.rs start_tcp_provider after `spawn(accept_clients(..))`
InitProv ==
    /\ NoEngine
    /\ NoCodec
    /\ InitOpen([keepalive |-> FALSE, try_use_non_escaping |-> FALSE, negotiate |-> FALSE], FALSE)
    /\ cancellation_token = FALSE
    /\ accept_loop = "running"
    /\ backlog = 0
    /\ handlers = << >>
    /\ n_clients = 0

\* a client connects: the listener holds the connection until accept returns it
ClientConnects ==
    /\ n_clients < MaxClients
    /\ n_clients' = n_clients + 1
    /\ backlog' = backlog + 1
    /\ UNCHANGED << chanVars, consVars, codecVars, cancellation_token, accept_loop, handlers >>

\* provider.rs serve: `spawn(async move { client_handler.handle_client(..) })`
serve(hs) == Append(hs, "running")

\* accept_clients, branch `client = socket.accept()` with Ok: client_connected
\* opens the server channel (ember_channel without negotiation has no
\* failing step) and serve spawns the handler.  select! polls its branches
\* in random order, so this branch can be taken whenever a connection is
\* there, whether or not the token is cancelled as well.
AcceptClient ==
    /\ accept_loop = "running"
    /\ backlog > 0
    /\ backlog' = backlog - 1
    /\ handlers' = serve(handlers)
    /\ UNCHANGED << chanVars, consVars, codecVars, cancellation_token, accept_loop, n_clients >>

\* accept_clients, branch `client = socket.accept()` with Err: client_accepted
\* returns false and the loop ends
AcceptFails ==
    /\ accept_loop = "running"
    /\ accept_loop' = "failed"
    /\ UNCHANGED << chanVars, consVars, codecVars, cancellation_token, backlog, handlers,
                    n_clients >>

\* accept_clients, branch `_ = cancellation_token.cancelled()`
AcceptCancelled ==
    /\ accept_loop = "running"
    /\ cancellation_token
    /\ accept_loop' = "stopped"
    /\ UNCHANGED << chanVars, consVars, codecVars, cancellation_token, backlog, handlers,
                    n_clients >>

\* the owner of the token given to start_tcp_provider cancels it
CancelProvider ==
    /\ ~cancellation_token
    /\ cancellation_token' = TRUE
    /\ UNCHANGED << chanVars, consVars, codecVars, accept_loop, backlog, handlers, n_clients >>

\* a handler returns, with Ok or with an error that serve logs
HandlerReturns ==
    \E i \in 1..Len(handlers) : \E r \in {"ok", "err"} :
        /\ handlers[i] = "running"
        /\ handlers' = [handlers EXCEPT ![i] = r]
        /\ UNCHANGED << chanVars, consVars, codecVars, cancellation_token, accept_loop,
                        backlog, n_clients >>

NextProv ==
    \/ ClientConnects
    \/ AcceptClient
    \/ AcceptFails
    \/ AcceptCancelled
    \/ CancelProvider
    \/ HandlerReturns

SpecProv == InitProv /\ [][NextProv]_vars

\* C26: once the token is cancelled no step starts a client handler; a
\* handler changes only by returning, and the step in which it returns, with
\* or without an error, leaves the accept loop and every other handler as
\* they were; cancelling the token and the end of the accept loop leave every
\* handler as it was.
C26_ProviderIsolation ==
    [][ /\ cancellation_token => Len(handlers') = Len(handlers)
        /\ \A i \in 1..Len(handlers) :
              handlers'[i] # handlers[i] =>
                  /\ handlers[i] = "running"
                  /\ handlers'[i] \in {"ok", "err"}
                  /\ accept_loop' = accept_loop
                  /\ \A j \in 1..Len(handlers) : j # i => handlers'[j] = handlers[j]
        /\ (cancellation_token' # cancellation_token \/ accept_loop' # accept_loop) =>
              handlers' = handlers
      ]_vars

====
